---------------------------- MODULE Spec2Model ----------------------------
(***************************************************************************)
(* Model of the SEI client (src/api/sei.py), its cache (src/api/cache.py)  *)
(* and the proxy routes (src/api/routes/sei_proxy.py).                     *)
(*                                                                         *)
(* The module holds several specifications over one set of variables:      *)
(*   SpecRetry  - _fazer_requisicao_com_retry, one call, attempt by attempt *)
(*   SpecPagina - one call of _buscar_pagina_*, attempt by attempt          *)
(*   SpecGet    - the upstream GET wrappers up to their first response      *)
(*   SpecFetch  - one call of listar_documentos / listar_tarefa /           *)
(*                listar_documentos_parcial / listar_tarefa_parcial,        *)
(*                request by request                                        *)
(*   SpecProxy  - the proxy routes, the cache and the background tasks      *)
(*   SpecCache  - RedisCache against the Redis server, command by command   *)
(* A specification leaves the variables of the others unchanged.           *)
(***************************************************************************)
EXTENDS Integers, Sequences, FiniteSets, TLC

VARIABLES
    \* ---- _fazer_requisicao_com_retry (SpecRetry)
    max_tentativas,      \* the argument max_tentativas
    tentativa,           \* loop variable of `for tentativa in range(max_tentativas)`
    rq_estado,           \* "loop" | "returned" | "raised"
    rq_resultado,        \* the response returned / the exception raised
    rq_hist,             \* outcomes of http_client.get so far, one per attempt
    \* ---- one call of _buscar_pagina_* around it (SpecPagina)
    pg_pagina,           \* the argument pagina
    pg_retorno,          \* what the helper returned
    \* ---- one call of an upstream GET wrapper around it (SpecGet)
    gw_funcao,           \* the wrapper called
    gw_retorno,          \* what the wrapper did once the request had ended
    \* ---- one call of a fetch function (SpecFetch)
    recurso,             \* "documentos" | "andamentos"
    modo,                \* "all" (listar_*) | "parcial" (listar_*_parcial)
    total_itens,         \* Info.TotalItens the upstream reports for the process
    pc,                  \* position of the call, at an await or finished
    resp_descoberta,     \* outcome of the discovery request (`response`)
    primeira_pagina,     \* the items of the discovery response (page 1)
    resultados_por_pagina, \* the dict {pagina: itens}, in insertion order
    paginas_pendentes,   \* list of pages the current round requests
    paginas_falhadas,    \* list of pages that failed in the current round
    rodada,              \* `tentativa` of `for tentativa in range(max_retries)`
    i_lote,              \* `i` of `for i in range(0, len(pendentes), batch_size)`
    lote,                \* the pages awaited by the current await (batch / gather)
    em_voo,              \* pages whose request is issued and not yet answered
    respostas,           \* page -> what its helper call returned, for `lote`
    ruins,               \* pages that have failed at least once (bounded)
    esgotadas,           \* pages a request of which ended in a transport
                         \* failure after its last attempt
    boas,                \* pages a request of which returned a non-empty list
    desordem,            \* a response overtook the request of a lower page
    pedidos,             \* page -> number of requests issued for it so far
    retorno,             \* what the call returned or raised
    \* ---- the proxy routes, the cache and the upstream (SpecProxy)
    cache,               \* Redis: key -> stored envelope, or Ausente
    versao,              \* number of signatures the upstream has applied
    tarefas,             \* invocations of sei_andamentos / sei_documentos,
                         \* each with the background task it spawned
    assinaturas,         \* invocations of sei_assinar_documento
    \* ---- RedisCache against the Redis server, call by call (SpecCache)
    redis_up,            \* the server answers
    redis_db,            \* the server's keyspace: key -> text and time to live
    conectado,           \* RedisCache._connected
    cliente,             \* RedisCache.redis_client is not None
    chamada,             \* the call of RedisCache under way and its caller
    feitas,              \* number of callers so far
    gravado,             \* key -> the last value written and its remaining life
    \* ---- the admin route reset_cache_processo and the keys it clears (SpecReset)
    chaves_redis,        \* the keys the server holds, each as its text
    redis_disponivel,    \* cache.is_available() answers True
    reset_retorno,       \* what the last call of an invalidation route returned
    \* ---- listar_ultimos_andamentos, request by request (SpecUltimos)
    ua_quantidade,       \* the argument quantidade
    ua_total,            \* TotalItens of the process
    ua_pc,               \* the request the call is waiting for
    ua_ultima,           \* ultima_pagina_andamentos
    ua_falhas,           \* number of requests that did not answer 200 so far
    ua_retorno           \* what the call returned or raised

varsPagina == <<pg_pagina, pg_retorno>>

varsGet == <<gw_funcao, gw_retorno>>

\* the state of one upstream request and of the function that made it
varsRetry == <<max_tentativas, tentativa, rq_estado, rq_resultado, rq_hist,
               varsPagina, varsGet>>

varsFetch == <<recurso, modo, total_itens, pc, resp_descoberta,
               primeira_pagina, resultados_por_pagina,
               paginas_pendentes, paginas_falhadas, rodada, i_lote, lote,
               em_voo, respostas, ruins, esgotadas, boas, desordem, pedidos,
               retorno>>

varsProxy == <<cache, versao, tarefas, assinaturas>>

varsCache == <<redis_up, redis_db, conectado, cliente, chamada, feitas, gravado>>

varsReset == <<chaves_redis, redis_disponivel, reset_retorno>>

varsUltimos == <<ua_quantidade, ua_total, ua_pc, ua_ultima, ua_falhas, ua_retorno>>

vars == <<varsRetry, varsFetch, varsProxy, varsCache, varsReset, varsUltimos>>

----------------------------------------------------------------------------
(* Outcomes of one http_client.get *)

\* status codes an upstream response may carry
StatusCodes == {200, 401, 403, 404, 422, 500, 503}

\* a response with status s; its body is the JSON object the upstream
\* documents, with the list of items under "Documentos" / "Andamentos"
Resposta(s) == [tipo |-> "response", status |-> s, corpo |-> "lista"]
Excecao(t) == [tipo |-> t, status |-> 0]

\* other bodies a 200 response may carry: a JSON object without the key, a
\* JSON object with null under the key, JSON that is not an object, and
\* text that is not JSON
CorposMalformados == {"sem_chave", "chave_nula", "nao_objeto", "nao_json"}
RespostaCorpo(c) == [tipo |-> "response", status |-> 200, corpo |-> c]

\* httpx.TimeoutException, httpx.ConnectError, any other httpx.RequestError
TiposTransporte == {"timeout", "connect"}
TiposExcecao == TiposTransporte \cup {"request_error"}

Desfechos == {Resposta(s) : s \in StatusCodes} \cup {Excecao(t) : t \in TiposExcecao}

\* the outcomes of a page request, the bodies above included
DesfechosPagina == Desfechos \cup {RespostaCorpo(c) : c \in CorposMalformados}

Nenhum == [tipo |-> "none", status |-> 0]

----------------------------------------------------------------------------
(* _fazer_requisicao_com_retry, src/api/sei.py:21-55 *)

\* largest max_tentativas a call is made with (every caller passes 3)
MaxTentativasArg == 4

\* mutant: a 5xx response is treated like a transport failure and retried
apos_tentativa_retry5xx(d, t, m) ==
    IF d.tipo = "response" /\ d.status < 500
      THEN [estado |-> "returned", resultado |-> d, tentativa |-> t]
    ELSE IF d.tipo = "request_error"
      THEN [estado |-> "raised", resultado |-> d, tentativa |-> t]
    ELSE IF t = m - 1
      THEN [estado |-> (IF d.tipo = "response" THEN "returned" ELSE "raised"),
            resultado |-> d, tentativa |-> t]
    ELSE [estado |-> "loop", resultado |-> Nenhum, tentativa |-> t + 1]

\* mutant: the loop gives up one attempt early
apos_tentativa_sem_ultima(d, t, m) ==
    IF d.tipo = "response"
      THEN [estado |-> "returned", resultado |-> d, tentativa |-> t]
    ELSE IF d.tipo \in TiposTransporte
      THEN IF t >= m - 2
             THEN [estado |-> "raised", resultado |-> d, tentativa |-> t]
             ELSE [estado |-> "loop", resultado |-> Nenhum, tentativa |-> t + 1]
    ELSE [estado |-> "raised", resultado |-> d, tentativa |-> t]

\* one iteration of the for loop, given the outcome d of http_client.get:
\* a response returns (line 35); a timeout or connect error raises on the
\* last iteration and otherwise continues (36-49); another RequestError
\* raises at once (50-55)
apos_tentativa(d, t, m) ==
    IF d.tipo = "response"
      THEN [estado |-> "returned", resultado |-> d, tentativa |-> t]
    ELSE IF d.tipo \in TiposTransporte
      THEN IF t = m - 1
             THEN [estado |-> "raised", resultado |-> d, tentativa |-> t]
             ELSE [estado |-> "loop", resultado |-> Nenhum, tentativa |-> t + 1]
    ELSE [estado |-> "raised", resultado |-> d, tentativa |-> t]

\* the helper has not returned (or is not under observation)
SemPagina == [tipo |-> "none", lista |-> FALSE, itens |-> <<>>]

InitRetry ==
    /\ max_tentativas \in 1..MaxTentativasArg
    /\ tentativa = 0
    /\ rq_estado = "loop"
    /\ rq_resultado = Nenhum
    /\ rq_hist = <<>>
    /\ pg_pagina = 0
    /\ pg_retorno = SemPagina
    /\ gw_funcao = "nenhuma"
    /\ gw_retorno = Nenhum

\* one pass of the loop: http_client.get ends with the outcome d
Tentativa(d) ==
    LET r == apos_tentativa(d, tentativa, max_tentativas) IN
      /\ rq_hist' = Append(rq_hist, d)
      /\ rq_estado' = r.estado
      /\ rq_resultado' = r.resultado
      /\ tentativa' = r.tentativa

Tentar ==
    /\ rq_estado = "loop"
    /\ tentativa < max_tentativas
    /\ \E d \in Desfechos : Tentativa(d)
    /\ UNCHANGED <<max_tentativas, varsPagina, varsGet, varsFetch, varsProxy, varsCache, varsReset, varsUltimos>>

----------------------------------------------------------------------------
(* The upstream collection and the page helpers *)

quantidade_por_pagina == 10
batch_size == 20
max_retries == 3
\* `if total_paginas <= 10` of the partial variants
limiar_parcial == 10

\* math.ceil(total_itens / quantidade_por_pagina)
total_paginas(total) ==
    (total + quantidade_por_pagina - 1) \div quantidade_por_pagina

Min(a, b) == IF a <= b THEN a ELSE b

\* number of items the upstream holds on page p of a collection of `total`
tamanho_pagina(total, p) ==
    IF p < 1 \/ (p - 1) * quantidade_por_pagina >= total THEN 0
    ELSE Min(quantidade_por_pagina, total - (p - 1) * quantidade_por_pagina)

\* the items of page p, in upstream order; item k of the collection is k
pagina_upstream(total, p) ==
    [k \in 1..tamanho_pagina(total, p) |-> (p - 1) * quantidade_por_pagina + k]

\* the whole collection, as one unpaged fetch would return it
colecao(total) == [k \in 1..total |-> k]

\* what a helper call returns: a list, or a value that is no list (None)
PaginaRetornou(itens) == [tipo |-> "return", lista |-> TRUE, itens |-> itens]
PaginaNone == [tipo |-> "return", lista |-> FALSE, itens |-> <<>>]
PaginaLevantou == [tipo |-> "raise", lista |-> FALSE, itens |-> <<>>]

\* mutant: an exception of the request is not caught
retorno_pagina_propaga(d, total, p) ==
    IF d.tipo # "response" THEN PaginaLevantou
    ELSE IF d.status # 200 THEN PaginaRetornou(<<>>)
    ELSE IF d.corpo = "lista" THEN PaginaRetornou(pagina_upstream(total, p))
    ELSE IF d.corpo = "chave_nula" THEN PaginaNone
    ELSE PaginaRetornou(<<>>)

\* _buscar_pagina_documentos / _buscar_pagina_andamentos, given the outcome d
\* of _fazer_requisicao_com_retry (sei.py:104-139, 431-462): every except
\* clause returns []; a non-200 response returns []; otherwise
\* response.json().get(key, []) - json() raising (not JSON) and .get raising
\* (not an object) end in `except Exception`, a missing key gives the default
\* [], and a key holding null gives None
retorno_pagina(d, total, p) ==
    IF d.tipo # "response" THEN PaginaRetornou(<<>>)
    ELSE IF d.status # 200 THEN PaginaRetornou(<<>>)
    ELSE IF d.corpo = "lista" THEN PaginaRetornou(pagina_upstream(total, p))
    ELSE IF d.corpo = "chave_nula" THEN PaginaNone
    ELSE PaginaRetornou(<<>>)

\* the list a helper call returns when the upstream's bodies are well formed:
\* the page's items on a 200 response, the empty list on any other response
\* or exception
buscar_pagina(d, total, p) == retorno_pagina(d, total, p).itens

----------------------------------------------------------------------------
(* SpecPagina: one call of _buscar_pagina_*, attempt by attempt *)

\* `max_tentativas=3` of the helpers' call of _fazer_requisicao_com_retry
tentativas_pagina == 3

\* TotalItens of the process whose page is requested (3 pages)
TotaisPagina == {25}

InitPagina ==
    /\ max_tentativas = tentativas_pagina
    /\ tentativa = 0
    /\ rq_estado = "loop"
    /\ rq_resultado = Nenhum
    /\ rq_hist = <<>>
    /\ pg_pagina \in 1..3
    /\ pg_retorno = SemPagina
    /\ gw_funcao = "nenhuma"
    /\ gw_retorno = Nenhum

\* one pass of the loop of the helper's request
TentarPagina ==
    /\ rq_estado = "loop"
    /\ tentativa < max_tentativas
    /\ \E d \in DesfechosPagina : Tentativa(d)
    /\ UNCHANGED <<max_tentativas, varsPagina, varsGet, varsFetch, varsProxy, varsCache, varsReset, varsUltimos>>

\* _fazer_requisicao_com_retry has returned or raised: the helper returns
PaginaRetorna ==
    /\ rq_estado \in {"returned", "raised"}
    /\ pg_retorno = SemPagina
    /\ pg_retorno' = retorno_pagina(rq_resultado, total_itens, pg_pagina)
    /\ UNCHANGED <<max_tentativas, tentativa, rq_estado, rq_resultado, rq_hist,
                   pg_pagina, varsGet, varsFetch, varsProxy, varsCache, varsReset, varsUltimos>>

----------------------------------------------------------------------------
(* Python dict {pagina: itens} as a sequence of entries in insertion order *)

dict_keys(dd) == {dd[k].pagina : k \in 1..Len(dd)}

dict_index(dd, p) == CHOOSE k \in 1..Len(dd) : dd[k].pagina = p

dict_get(dd, p) == dd[dict_index(dd, p)].itens

dict_set(dd, p, itens) ==
    IF p \in dict_keys(dd)
      THEN [dd EXCEPT ![dict_index(dd, p)] = [pagina |-> p, itens |-> itens]]
      ELSE Append(dd, [pagina |-> p, itens |-> itens])

RECURSIVE sorted(_)
sorted(S) ==
    IF S = {} THEN <<>>
    ELSE LET m == CHOOSE x \in S : \A y \in S : x <= y
         IN <<m>> \o sorted(S \ {m})

\* range(a, b) as a list
range(a, b) == [k \in 1..(IF b > a THEN b - a ELSE 0) |-> a + k - 1]

seq_set(s) == {s[k] : k \in 1..Len(s)}


RECURSIVE concat_paginas(_, _)
concat_paginas(dd, ps) ==
    IF ps = <<>> THEN <<>>
    ELSE dict_get(dd, Head(ps)) \o concat_paginas(dd, Tail(ps))

RECURSIVE concat(_)
concat(ls) == IF ls = <<>> THEN <<>> ELSE Head(ls) \o concat(Tail(ls))

----------------------------------------------------------------------------
(* What a call returns or raises *)

SemRetorno ==
    [tipo |-> "none", status |-> 0, itens |-> <<>>, total |-> 0,
     parcial |-> FALSE, paginas |-> <<>>]

\* `return itens` of listar_* ; `return itens, total, parcial` of listar_*_parcial
Retornou(itens, total, parcial) ==
    [tipo |-> "return", status |-> 200, itens |-> itens, total |-> total,
     parcial |-> parcial, paginas |-> <<>>]

\* raise HTTPException(status_code=status, details={"paginas_falhadas": paginas})
Levantou(status, paginas) ==
    [tipo |-> "raise", status |-> status, itens |-> <<>>, total |-> 0,
     parcial |-> FALSE, paginas |-> paginas]

\* _raise_sei_error: 401, 403 and 422 pass through, anything else is a 502
raise_sei_error(status) ==
    IF status \in {401, 403, 422} THEN Levantou(status, <<>>)
    ELSE Levantou(502, <<>>)

----------------------------------------------------------------------------
(* listar_documentos / listar_tarefa: the pieces between two awaits *)

\* mutant: the up-front last page is kept even when it came back empty
apos_ultima_pagina_sempre(rpp, T, ultima) == dict_set(rpp, T, ultima)

\* lines 195-198: the up-front last page is kept unless it came back empty
apos_ultima_pagina(rpp, T, ultima) ==
    IF ultima = <<>> THEN rpp ELSE dict_set(rpp, T, ultima)

\* mutant: a last page that failed up front is not made pending
pendentes_iniciais_sem_ultima(rpp, T) ==
    SelectSeq(range(2, T), LAMBDA p : p \notin dict_keys(rpp))

\* lines 201-207: the middle pages, then the last page if it failed
pendentes_iniciais(rpp, T) ==
    SelectSeq(range(2, T), LAMBDA p : p \notin dict_keys(rpp))
      \o (IF T \notin dict_keys(rpp) /\ T > 1 THEN <<T>> ELSE <<>>)

\* asyncio.gather(*tarefas): the results in the order of the tasks, whatever
\* the order in which they completed
gather(batch, resp) == [j \in 1..Len(batch) |-> resp[batch[j]]]

\* lines 227-233: an empty result marks the page failed, another is stored
RECURSIVE processar_resultados(_, _, _, _)
processar_resultados(batch, resultados, rpp, falhadas) ==
    IF batch = <<>> THEN [rpp |-> rpp, falhadas |-> falhadas]
    ELSE IF Head(resultados) = <<>>
      THEN processar_resultados(Tail(batch), Tail(resultados), rpp,
                                Append(falhadas, Head(batch)))
      ELSE processar_resultados(Tail(batch), Tail(resultados),
                                dict_set(rpp, Head(batch), Head(resultados)),
                                falhadas)

\* mutant: the slice runs to the end of the pending pages
fatia_tudo(pend, i) == SubSeq(pend, i + 1, Len(pend))

\* paginas_pendentes[i:i + batch_size]
fatia(pend, i) == SubSeq(pend, i + 1, Min(i + batch_size, Len(pend)))

\* mutant: the dict is walked in insertion order (1, last, 2, 3, ...)
combinar_insercao(rpp) ==
    concat_paginas(rpp, [k \in 1..Len(rpp) |-> rpp[k].pagina])

\* lines 258-260: the pages in ascending page order
combinar(rpp) == concat_paginas(rpp, sorted(dict_keys(rpp)))

\* mutant: pages still pending are dropped and the rest is returned
finalizar_sem_erro(pend, rpp) == Retornou(combinar(rpp), 0, FALSE)

\* lines 242-264: raise 502 if pages are still pending, else combine
finalizar(pend, rpp) ==
    IF pend # <<>> THEN Levantou(502, pend)
    ELSE Retornou(combinar(rpp), 0, FALSE)

\* mutant: one more round than max_retries
entrar_rodada_quatro(rod, pend, rpp) ==
    IF rod >= max_retries + 1 \/ pend = <<>>
      THEN [fim |-> TRUE, retorno |-> finalizar(pend, rpp), rodada |-> rod,
            i |-> 0, pendentes |-> pend, falhadas |-> <<>>, lote |-> <<>>]
      ELSE [fim |-> FALSE, retorno |-> SemRetorno, rodada |-> rod,
            i |-> 0, pendentes |-> pend, falhadas |-> <<>>,
            lote |-> fatia(pend, 0)]

\* top of `for tentativa in range(max_retries)` (209-219) with round `rod`
\* and pending pages `pend`: the next batch to await, or the end of the call
entrar_rodada(rod, pend, rpp) ==
    IF rod >= max_retries \/ pend = <<>>
      THEN [fim |-> TRUE, retorno |-> finalizar(pend, rpp), rodada |-> rod,
            i |-> 0, pendentes |-> pend, falhadas |-> <<>>, lote |-> <<>>]
      ELSE [fim |-> FALSE, retorno |-> SemRetorno, rodada |-> rod,
            i |-> 0, pendentes |-> pend, falhadas |-> <<>>,
            lote |-> fatia(pend, 0)]

\* mutant: `while paginas_pendentes` in place of the bounded for loop: the
\* failed pages are retried without counting the round
apos_lote_sem_contar(rod, i, pend, falhadas, rpp) ==
    IF i + batch_size < Len(pend)
      THEN [fim |-> FALSE, retorno |-> SemRetorno, rodada |-> rod,
            i |-> i + batch_size, pendentes |-> pend, falhadas |-> falhadas,
            lote |-> fatia(pend, i + batch_size)]
      ELSE entrar_rodada(rod, falhadas, rpp)

\* after the results of the batch at offset i were processed (235-240): the
\* next batch of the round, or the next round with the failed pages
apos_lote(rod, i, pend, falhadas, rpp) ==
    IF i + batch_size < Len(pend)
      THEN [fim |-> FALSE, retorno |-> SemRetorno, rodada |-> rod,
            i |-> i + batch_size, pendentes |-> pend, falhadas |-> falhadas,
            lote |-> fatia(pend, i + batch_size)]
      ELSE entrar_rodada(rod + 1, falhadas, rpp)


----------------------------------------------------------------------------
(* listar_tarefa_parcial / listar_documentos_parcial *)

\* first 5 and last 5 pages: range(2, 6) and range(total_paginas - 4, ...)
K_paginas == 5

\* mutant: the first pages run to page 6 (an off-by-one in range(2, 6))
paginas_parciais_seis(T) ==
    sorted(seq_set(range(2, K_paginas + 2))
             \cup seq_set(range(T - (K_paginas - 1), T + 1)))

\* sei.py:518-522: sorted(set(first_pages + last_pages))
paginas_parciais(T) ==
    sorted(seq_set(range(2, K_paginas + 1))
             \cup seq_set(range(T - (K_paginas - 1), T + 1)))

\* sei.py:505-510 and 607-612: page 1, then every result in task order
juntar_todas(primeira, resultados) == primeira \o concat(resultados)

\* the results of the pages <= 5 (baixas) or > 5 (not baixas), in task order
RECURSIVE parte(_, _, _)
parte(all_pages, resultados, baixas) ==
    IF all_pages = <<>> THEN <<>>
    ELSE (IF (Head(all_pages) <= K_paginas) = baixas
            THEN Head(resultados) ELSE <<>>)
           \o parte(Tail(all_pages), Tail(resultados), baixas)

\* mutant: the last pages are put before the first pages
juntar_parciais_invertido(primeira, all_pages, resultados) ==
    parte(all_pages, resultados, FALSE)
      \o (primeira \o parte(all_pages, resultados, TRUE))

\* sei.py:531-543: primeiros = page 1 + pages <= 5, ultimos = the others
juntar_parciais(primeira, all_pages, resultados) ==
    LET primeiros == primeira \o parte(all_pages, resultados, TRUE)
        ultimos == parte(all_pages, resultados, FALSE)
    IN primeiros \o ultimos

----------------------------------------------------------------------------
(* The discovery request of the four fetch functions *)

Aguardar(onde, paginas) ==
    [fim |-> FALSE, retorno |-> SemRetorno, pc |-> onde, lote |-> paginas]

Terminar(ret) ==
    [fim |-> TRUE, retorno |-> ret, pc |-> "fim", lote |-> <<>>]

\* mutant: a failed discovery request is reported as a failed page
apos_descoberta_502(rec, md, d, total) ==
    LET T == total_paginas(total)
        primeira == pagina_upstream(total, 1)
    IN
    IF d.tipo # "response" THEN Terminar(Levantou(502, <<1>>))
    ELSE IF d.status # 200 THEN Terminar(raise_sei_error(d.status))
    ELSE IF total = 0 THEN Terminar(Retornou(<<>>, 0, FALSE))
    ELSE IF md = "all"
      THEN IF total <= 10 THEN Terminar(Retornou(primeira, 0, FALSE))
           ELSE Aguardar("ultima", <<T>>)
    ELSE IF rec = "andamentos"
      THEN IF T <= limiar_parcial
             THEN IF T = 1 THEN Terminar(Retornou(primeira, total, FALSE))
                  ELSE Aguardar("gather_todas", range(2, T + 1))
             ELSE Aguardar("gather_parciais", paginas_parciais(T))
    ELSE IF total <= 10 THEN Terminar(Retornou(primeira, total, FALSE))
    ELSE IF T <= limiar_parcial THEN Aguardar("gather_todas", range(2, T + 1))
    ELSE Aguardar("ultima_parcial", <<T>>)

\* mutant: listar_* takes the one-page shortcut below 10 items only
apos_descoberta_sem_atalho(rec, md, d, total) ==
    LET T == total_paginas(total)
        primeira == pagina_upstream(total, 1)
    IN
    IF d.tipo # "response" THEN Terminar(Levantou(500, <<>>))
    ELSE IF d.status # 200 THEN Terminar(raise_sei_error(d.status))
    ELSE IF total = 0 THEN Terminar(Retornou(<<>>, 0, FALSE))
    ELSE IF md = "all"
      THEN IF total < 10 THEN Terminar(Retornou(primeira, 0, FALSE))
           ELSE Aguardar("ultima", <<T>>)
    ELSE IF rec = "andamentos"
      THEN IF T <= limiar_parcial
             THEN IF T = 1 THEN Terminar(Retornou(primeira, total, FALSE))
                  ELSE Aguardar("gather_todas", range(2, T + 1))
             ELSE Aguardar("gather_parciais", paginas_parciais(T))
    ELSE IF total <= 10 THEN Terminar(Retornou(primeira, total, FALSE))
    ELSE IF T <= limiar_parcial THEN Aguardar("gather_todas", range(2, T + 1))
    ELSE Aguardar("ultima_parcial", <<T>>)

\* mutant: an empty process is reported as not found
apos_descoberta_zero_levanta(rec, md, d, total) ==
    LET T == total_paginas(total)
        primeira == pagina_upstream(total, 1)
    IN
    IF d.tipo # "response" THEN Terminar(Levantou(500, <<>>))
    ELSE IF d.status # 200 THEN Terminar(raise_sei_error(d.status))
    ELSE IF total = 0 THEN Terminar(Levantou(404, <<>>))
    ELSE IF md = "all"
      THEN IF total <= 10 THEN Terminar(Retornou(primeira, 0, FALSE))
           ELSE Aguardar("ultima", <<T>>)
    ELSE IF rec = "andamentos"
      THEN IF T <= limiar_parcial
             THEN IF T = 1 THEN Terminar(Retornou(primeira, total, FALSE))
                  ELSE Aguardar("gather_todas", range(2, T + 1))
             ELSE Aguardar("gather_parciais", paginas_parciais(T))
    ELSE IF total <= 10 THEN Terminar(Retornou(primeira, total, FALSE))
    ELSE IF T <= limiar_parcial THEN Aguardar("gather_todas", range(2, T + 1))
    ELSE Aguardar("ultima_parcial", <<T>>)

\* the code from the entry of the function to its second await (or its end),
\* given the outcome d of _fazer_requisicao_com_retry for page 1
apos_descoberta(rec, md, d, total) ==
    LET T == total_paginas(total)
        primeira == pagina_upstream(total, 1)
    IN
    IF d.tipo # "response" THEN Terminar(Levantou(500, <<>>))
    ELSE IF d.status # 200 THEN Terminar(raise_sei_error(d.status))
    ELSE IF total = 0 THEN Terminar(Retornou(<<>>, 0, FALSE))
    ELSE IF md = "all"
      THEN IF total <= 10 THEN Terminar(Retornou(primeira, 0, FALSE))
           ELSE Aguardar("ultima", <<T>>)
    ELSE IF rec = "andamentos"
      THEN IF T <= limiar_parcial
             THEN IF T = 1 THEN Terminar(Retornou(primeira, total, FALSE))
                  ELSE Aguardar("gather_todas", range(2, T + 1))
             ELSE Aguardar("gather_parciais", paginas_parciais(T))
    ELSE IF total <= 10 THEN Terminar(Retornou(primeira, total, FALSE))
    ELSE IF T <= limiar_parcial THEN Aguardar("gather_todas", range(2, T + 1))
    ELSE Aguardar("ultima_parcial", <<T>>)


----------------------------------------------------------------------------
(* SpecGet: the upstream GET wrappers up to the handling of the response   *)
(* of their (first) request                                                *)

Listagens ==
    {"listar_documentos", "listar_tarefa",
     "listar_documentos_parcial", "listar_tarefa_parcial"}

Consultas == {"consultar_procedimento", "consultar_documento"}

FuncoesGet == Listagens \cup Consultas \cup {"baixar_documento"}

\* the wrapper goes on after a 200 response (further requests, or the
\* handling of the body)
Seguiu == [tipo |-> "segue", status |-> 200, itens |-> <<>>, total |-> 0,
           parcial |-> FALSE, paginas |-> <<>>]

\* consultar_procedimento / consultar_documento (sei.py:836-872, 893-911):
\* a RequestError becomes a 500, a non-200 response goes to _raise_sei_error
consultar(d) ==
    IF d.tipo # "response" THEN Levantou(500, <<>>)
    ELSE IF d.status # 200 THEN raise_sei_error(d.status)
    ELSE Seguiu

\* baixar_documento (sei.py:979-1026): a RequestError becomes a 500; the
\* HTTPException that _raise_sei_error raises inside the try block is no
\* RequestError and is caught by `except Exception`, which raises a 500
baixar_documento(d) ==
    IF d.tipo # "response" THEN Levantou(500, <<>>)
    ELSE IF d.status # 200 THEN Levantou(500, <<>>)
    ELSE Seguiu

\* the wrapper f once its request has ended with d
wrapper_get(f, d, total) ==
    IF f \in Listagens
      THEN LET r == apos_descoberta(
                      IF f \in {"listar_documentos", "listar_documentos_parcial"}
                        THEN "documentos" ELSE "andamentos",
                      IF f \in {"listar_documentos", "listar_tarefa"}
                        THEN "all" ELSE "parcial",
                      d, total)
           IN IF r.fim THEN r.retorno ELSE Seguiu
    ELSE IF f \in Consultas THEN consultar(d)
    ELSE baixar_documento(d)

InitGet ==
    /\ max_tentativas = tentativas_pagina
    /\ tentativa = 0
    /\ rq_estado = "loop"
    /\ rq_resultado = Nenhum
    /\ rq_hist = <<>>
    /\ pg_pagina = 0
    /\ pg_retorno = SemPagina
    /\ gw_funcao \in FuncoesGet
    /\ gw_retorno = Nenhum

\* _fazer_requisicao_com_retry has returned or raised: the wrapper handles it
GetRetorna ==
    /\ gw_funcao \in FuncoesGet
    /\ rq_estado \in {"returned", "raised"}
    /\ gw_retorno = Nenhum
    /\ gw_retorno' = wrapper_get(gw_funcao, rq_resultado, total_itens)
    /\ UNCHANGED <<max_tentativas, tentativa, rq_estado, rq_resultado, rq_hist,
                   varsPagina, gw_funcao, varsFetch, varsProxy, varsCache, varsReset, varsUltimos>>

----------------------------------------------------------------------------
(* The fetch functions as functions of the upstream's behaviour.           *)
(* falhas[p] is the number of requests for page p that fail before one     *)
(* succeeds; np[p] counts the requests made for page p so far.             *)

desfecho_de(falhas, np, p) ==
    IF np[p] + 1 <= falhas[p] THEN Excecao("timeout") ELSE Resposta(200)

mais_pedidos(np, paginas) ==
    [q \in DOMAIN np |-> IF q \in seq_set(paginas) THEN np[q] + 1 ELSE np[q]]

\* what the helper calls for `paginas` return, in task order
resultados_de(paginas, total, falhas, np) ==
    [j \in 1..Len(paginas) |->
        buscar_pagina(desfecho_de(falhas, np, paginas[j]), total, paginas[j])]

\* the batch loop of listar_* from loop position e to the end of the call
RECURSIVE executar_lotes(_, _, _, _, _)
executar_lotes(e, rpp, total, falhas, np) ==
    IF e.fim THEN e.retorno
    ELSE LET pr == processar_resultados(e.lote,
                       resultados_de(e.lote, total, falhas, np), rpp, e.falhadas)
         IN executar_lotes(apos_lote(e.rodada, e.i, e.pendentes, pr.falhadas, pr.rpp),
                           pr.rpp, total, falhas, mais_pedidos(np, e.lote))

\* listar_documentos / listar_tarefa, given the discovery outcome d
listar_completo(rec, d, total, falhas) ==
    LET r == apos_descoberta(rec, "all", d, total)
        T == total_paginas(total)
        np0 == [q \in 1..T |-> 0]
        rpp0 == dict_set(<<>>, 1, pagina_upstream(total, 1))
        rpp1 == apos_ultima_pagina(rpp0, T,
                    resultados_de(<<T>>, total, falhas, np0)[1])
    IN IF r.fim THEN r.retorno
       ELSE executar_lotes(entrar_rodada(0, pendentes_iniciais(rpp1, T), rpp1),
                           rpp1, total, falhas, mais_pedidos(np0, <<T>>))

\* the result of a partial variant once its only gather / await has returned
retorno_parcial(onde, primeira, paginas, resultados, total) ==
    IF onde = "gather_todas"
      THEN Retornou(juntar_todas(primeira, resultados), total, FALSE)
    ELSE IF onde = "gather_parciais"
      THEN Retornou(juntar_parciais(primeira, paginas, resultados), total, TRUE)
    ELSE Retornou(primeira \o resultados[1], total, TRUE)

\* listar_documentos_parcial / listar_tarefa_parcial, given d
listar_parcial(rec, d, total, falhas) ==
    LET r == apos_descoberta(rec, "parcial", d, total)
        np0 == [q \in 1..total_paginas(total) |-> 0]
    IN IF r.fim THEN r.retorno
       ELSE retorno_parcial(r.pc, pagina_upstream(total, 1), r.lote,
                            resultados_de(r.lote, total, falhas, np0), total)

----------------------------------------------------------------------------
(* SpecFetch: one call, request by request *)

\* TotalItens values the upstream may report
TotaisItens == {0, 7, 10, 11, 25, 100, 101, 110, 221}

\* at most this many distinct pages of a call ever fail
MaxPaginasRuins == 2

\* the pages whose requests may fail: the first two middle pages and the
\* last two pages (first batch, last batch and the up-front last page)
PaginasFalhaveis(T) == {2, 3, T - 1, T}

Max(a, b) == IF a >= b THEN a ELSE b

SemRespostas == [q \in {} |-> <<>>]

InitFetch ==
    /\ recurso \in {"documentos", "andamentos"}
    /\ modo \in {"all", "parcial"}
    /\ total_itens \in TotaisItens
    /\ pc = "descoberta"
    /\ resp_descoberta = Nenhum
    /\ primeira_pagina = <<>>
    /\ resultados_por_pagina = <<>>
    /\ paginas_pendentes = <<>>
    /\ paginas_falhadas = <<>>
    /\ rodada = 0
    /\ i_lote = 0
    /\ lote = <<>>
    /\ em_voo = {}
    /\ respostas = SemRespostas
    /\ ruins = {}
    /\ esgotadas = {}
    /\ boas = {}
    /\ desordem = FALSE
    /\ pedidos = [q \in 1..Max(1, total_paginas(total_itens)) |->
                    IF q = 1 THEN 1 ELSE 0]
    /\ retorno = SemRetorno

\* the requests of `paginas` are issued, or the call ends with `ret`
Emitir(onde, paginas) ==
    /\ pc' = onde
    /\ lote' = paginas
    /\ em_voo' = seq_set(paginas)
    /\ respostas' = SemRespostas
    /\ pedidos' = [q \in DOMAIN pedidos |->
                     IF q \in seq_set(paginas) THEN pedidos[q] + 1 ELSE pedidos[q]]
    /\ retorno' = SemRetorno

Encerrar(ret) ==
    /\ pc' = "fim"
    /\ lote' = <<>>
    /\ em_voo' = {}
    /\ respostas' = SemRespostas
    /\ pedidos' = pedidos
    /\ retorno' = ret

\* the discovery request completes (sei.py:163-198, 480-528, 582-622, 653-690)
Descobrir ==
    /\ pc = "descoberta"
    /\ \E d \in Desfechos :
         LET r == apos_descoberta(recurso, modo, d, total_itens) IN
           /\ IF r.fim THEN Encerrar(r.retorno) ELSE Emitir(r.pc, r.lote)
           /\ resp_descoberta' = d
           /\ primeira_pagina' =
                 IF d = Resposta(200) THEN pagina_upstream(total_itens, 1) ELSE <<>>
           /\ resultados_por_pagina' =
                 IF ~r.fim /\ modo = "all"
                   THEN dict_set(<<>>, 1, pagina_upstream(total_itens, 1))
                   ELSE <<>>
    /\ UNCHANGED <<varsRetry, varsProxy, varsCache, varsReset, varsUltimos>>
    /\ UNCHANGED <<recurso, modo, total_itens, paginas_pendentes,
                   paginas_falhadas, rodada, i_lote, ruins, esgotadas, boas, desordem>>

\* one outstanding page request completes: the helper returns its list.
\* Responses arrive for the lowest or the highest outstanding page, so a
\* gather completes in ascending, descending or mixed order.
Responder ==
    /\ pc \in {"ultima", "lote", "gather_todas", "gather_parciais", "ultima_parcial"}
    /\ \E p \in em_voo, d \in Desfechos :
         /\ \/ \A q \in em_voo : p <= q
            \/ \A q \in em_voo : p >= q
         /\ \/ d = Resposta(200)
            \/ p \in ruins
            \/ /\ p \in PaginasFalhaveis(total_paginas(total_itens))
               /\ Cardinality(ruins) < MaxPaginasRuins
         /\ respostas' = [q \in DOMAIN respostas \cup {p} |->
                            IF q = p THEN buscar_pagina(d, total_itens, p)
                            ELSE respostas[q]]
         /\ ruins' = IF d = Resposta(200) THEN ruins ELSE ruins \cup {p}
         /\ esgotadas' = IF d.tipo \in TiposTransporte
                            THEN esgotadas \cup {p} ELSE esgotadas
         /\ boas' = IF buscar_pagina(d, total_itens, p) # <<>>
                       THEN boas \cup {p} ELSE boas
         /\ em_voo' = em_voo \ {p}
         /\ desordem' = (desordem \/ \E q \in em_voo : q < p)
    /\ UNCHANGED <<varsRetry, varsProxy, varsCache, varsReset, varsUltimos>>
    /\ UNCHANGED <<recurso, modo, total_itens, pc, resp_descoberta, primeira_pagina,
                   resultados_por_pagina, paginas_pendentes, paginas_falhadas,
                   rodada, i_lote, lote, pedidos, retorno>>

\* apply the loop position e (of entrar_rodada / apos_lote)
Prosseguir(e, rpp) ==
    /\ resultados_por_pagina' = rpp
    /\ paginas_pendentes' = e.pendentes
    /\ paginas_falhadas' = e.falhadas
    /\ rodada' = e.rodada
    /\ i_lote' = e.i
    /\ IF e.fim THEN Encerrar(e.retorno) ELSE Emitir("lote", e.lote)

\* listar_*: the up-front request for the last page has returned (195-225)
UltimaRetorna ==
    /\ pc = "ultima"
    /\ em_voo = {}
    /\ LET T == total_paginas(total_itens)
           rpp == apos_ultima_pagina(resultados_por_pagina, T, respostas[T])
       IN Prosseguir(entrar_rodada(0, pendentes_iniciais(rpp, T), rpp), rpp)
    /\ UNCHANGED <<varsRetry, varsProxy, varsCache, varsReset, varsUltimos>>
    /\ UNCHANGED <<recurso, modo, total_itens, resp_descoberta, primeira_pagina,
                   ruins, esgotadas, boas, desordem>>

\* listar_*: the gather of a batch has returned (225-240)
LoteRetorna ==
    /\ pc = "lote"
    /\ em_voo = {}
    /\ LET pr == processar_resultados(lote, gather(lote, respostas),
                                      resultados_por_pagina, paginas_falhadas)
       IN Prosseguir(apos_lote(rodada, i_lote, paginas_pendentes,
                               pr.falhadas, pr.rpp), pr.rpp)
    /\ UNCHANGED <<varsRetry, varsProxy, varsCache, varsReset, varsUltimos>>
    /\ UNCHANGED <<recurso, modo, total_itens, resp_descoberta, primeira_pagina,
                   ruins, esgotadas, boas, desordem>>

\* listar_*_parcial: the gather (or the await of the last page) has returned
ParcialRetorna ==
    /\ pc \in {"gather_todas", "gather_parciais", "ultima_parcial"}
    /\ em_voo = {}
    /\ Encerrar(retorno_parcial(pc, primeira_pagina, lote,
                                gather(lote, respostas), total_itens))
    /\ UNCHANGED <<varsRetry, varsProxy, varsCache, varsReset, varsUltimos>>
    /\ UNCHANGED <<recurso, modo, total_itens, resp_descoberta, primeira_pagina,
                   resultados_por_pagina, paginas_pendentes, paginas_falhadas,
                   rodada, i_lote, ruins, esgotadas, boas, desordem>>


----------------------------------------------------------------------------
(* The cache (src/api/cache.py) as the proxy routes use it *)

Processos == {"P1"}
Unidades == {"U1", "U2"}
Recursos == {"documentos", "andamentos"}
\* the resources of the cached proxy routes: sei_documentos, sei_andamentos
\* and sei_unidades_abertas
RecursosProxy == Recursos \cup {"unidades"}

\* f"proxy:{recurso}:{numero_processo}:{id_unidade}"
Chave(rec, proc, unid) == <<"proxy", rec, proc, unid>>

Chaves ==
    {Chave(r, pr, u) : r \in RecursosProxy, pr \in Processos, u \in Unidades}

\* the envelope {"Info": {..., "Parcial": ...}, "Documentos" | "Andamentos": [...]};
\* `lido` is the number of signatures the upstream had applied when the
\* listing was fetched
Envelope(itens, total, parcial, v) ==
    [presente |-> TRUE, Parcial |-> parcial, QuantidadeItens |-> Len(itens),
     TotalItens |-> total, itens |-> itens, lido |-> v]

\* no value under the key (cache.get returns None)
Ausente ==
    [presente |-> FALSE, Parcial |-> FALSE, QuantidadeItens |-> 0,
     TotalItens |-> 0, itens |-> <<>>, lido |-> 0]

\* Redis MATCH: "*" stands for any text of a segment
casa(padrao, chave) ==
    \A k \in 1..Len(chave) : padrao[k] = "*" \/ padrao[k] = chave[k]

\* RedisCache.clear_pattern: SCAN with MATCH, DELETE of what it finds
clear_pattern(c, padrao) ==
    [k \in DOMAIN c |-> IF casa(padrao, k) THEN Ausente ELSE c[k]]

\* mutant: the write is lost
cache_set_perde(c, chave, valor) == c

\* mutant: the first writer of a key wins
cache_set_primeiro(c, chave, valor) ==
    IF c[chave].presente THEN c ELSE [c EXCEPT ![chave] = valor]

\* RedisCache.set: setex replaces the whole value
cache_set(c, chave, valor) == [c EXCEPT ![chave] = valor]

----------------------------------------------------------------------------
(* sei_andamentos / sei_documentos / sei_assinar_documento *)

\* client requests in a run
MaxPedidos == 2
\* signature requests in a run
MaxAssinaturas == 1

\* outcomes of the discovery request drawn in SpecProxy
DesfechosProxy == {Resposta(200), Resposta(401)}

\* TotalItens values of the process in SpecProxy: 3 pages and 11 pages
TotaisProxy == {25, 110}

\* upstream behaviours drawn in SpecProxy: no request fails, or the requests
\* of page 2 fail once or always
FalhasProxy(T) ==
    {[q \in 1..T |-> 0]}
      \cup {[q \in 1..T |-> IF q = p THEN n ELSE 0] :
               p \in {2}, n \in {1, max_retries + 1}}

\* what a call of listar_* / listar_*_parcial may end with, over the
\* outcomes and behaviours above
FinsCompleto ==
    [rec \in Recursos, total \in TotaisProxy |->
        {listar_completo(rec, d, total, f) :
            d \in DesfechosProxy, f \in FalhasProxy(total_paginas(total))}]

FinsParcial ==
    [rec \in Recursos, total \in TotaisProxy |->
        {listar_parcial(rec, d, total, f) :
            d \in DesfechosProxy, f \in FalhasProxy(total_paginas(total))}]

SemResposta == [tipo |-> "none", status |-> 0, env |-> Ausente]
RespostaOk(env) == [tipo |-> "return", status |-> 200, env |-> env]
RespostaErro(status) == [tipo |-> "raise", status |-> status, env |-> Ausente]

\* sei_proxy.py:76-86 / 199-208: the envelope of a listar_*_parcial result
envelope_parcial(ret, v) == Envelope(ret.itens, ret.total, ret.parcial, v)

\* sei_proxy.py:97-107, 123-133 / 222-231, 250-259: the envelope of a
\* listar_* result
envelope_completo(ret, v) == Envelope(ret.itens, Len(ret.itens), FALSE, v)

NovaTarefa(rec, proc, unid, parcial) ==
    [rec |-> rec, proc |-> proc, unid |-> unid, parcial |-> parcial,
     pc |-> "fetch", env |-> Ausente, resp |-> SemResposta,
     hit |-> FALSE, upstream |-> 0, bg |-> "nao", bg_chamadas |-> 0]

\* mutant: the cached envelope is returned to parcial=false requests only
apos_cache_get_sem_parcial(t, cached) ==
    IF cached.presente /\ ~t.parcial
      THEN [t EXCEPT !.pc = "fim", !.resp = RespostaOk(cached), !.hit = TRUE]
      ELSE t

\* sei_proxy.py:66-68 / 150-152 / 186-192: `if cached: return cached`
apos_cache_get(t, cached) ==
    IF cached.presente
      THEN [t EXCEPT !.pc = "fim", !.resp = RespostaOk(cached), !.hit = TRUE]
      ELSE t

\* mutant: the envelope of a partial result is cached like a full one
apos_fetch_grava_parcial(t, ret, v) ==
    IF ret.tipo = "raise"
      THEN [t EXCEPT !.pc = "fim", !.resp = RespostaErro(ret.status),
                     !.upstream = @ + 1]
    ELSE IF t.parcial
      THEN [t EXCEPT !.pc = "set", !.env = envelope_parcial(ret, v),
                     !.upstream = @ + 1]
    ELSE [t EXCEPT !.pc = "set", !.env = envelope_completo(ret, v),
                   !.upstream = @ + 1]

\* mutant: a fetch that raised leaves an empty envelope to be cached
apos_fetch_grava_falha(t, ret, v) ==
    IF ret.tipo = "raise"
      THEN [t EXCEPT !.pc = "set", !.env = Envelope(<<>>, 0, FALSE, v),
                     !.upstream = @ + 1]
    ELSE IF t.parcial
      THEN IF ~ret.parcial
             THEN [t EXCEPT !.pc = "set", !.env = envelope_parcial(ret, v),
                            !.upstream = @ + 1]
             ELSE [t EXCEPT !.pc = "bg_fetch",
                            !.resp = RespostaOk(envelope_parcial(ret, v)),
                            !.bg = "rodando", !.upstream = @ + 1]
    ELSE [t EXCEPT !.pc = "set", !.env = envelope_completo(ret, v),
                   !.upstream = @ + 1]

\* sei_proxy.py:70-136 / 194-266 once the call of listar_*_parcial or
\* listar_* has ended with `ret`; v is the upstream's state it read
apos_fetch(t, ret, v) ==
    IF ret.tipo = "raise"
      THEN [t EXCEPT !.pc = "fim", !.resp = RespostaErro(ret.status),
                     !.upstream = @ + 1]
    ELSE IF t.parcial
      THEN IF ~ret.parcial
             THEN [t EXCEPT !.pc = "set", !.env = envelope_parcial(ret, v),
                            !.upstream = @ + 1]
             ELSE [t EXCEPT !.pc = "bg_fetch",
                            !.resp = RespostaOk(envelope_parcial(ret, v)),
                            !.bg = "rodando", !.upstream = @ + 1]
    ELSE [t EXCEPT !.pc = "set", !.env = envelope_completo(ret, v),
                   !.upstream = @ + 1]

\* sei_unidades_abertas (sei_proxy.py:154-162) builds
\* {"UnidadesProcedimentoAberto": [...], "LinkAcesso": ...} from the body
resultado_unidades == Envelope(<<>>, 0, FALSE, 0)

\* sei_proxy.py:154-162 once consultar_procedimento has ended with `ret`
apos_consulta(t, ret) ==
    IF ret.tipo = "raise"
      THEN [t EXCEPT !.pc = "fim", !.resp = RespostaErro(ret.status),
                     !.upstream = @ + 1]
      ELSE [t EXCEPT !.pc = "set", !.env = resultado_unidades,
                     !.upstream = @ + 1]

\* mutant: a failed background fetch is attempted again
apos_bg_fetch_repete(t, ret, v) ==
    IF ret.tipo = "raise"
      THEN [t EXCEPT !.pc = "bg_fetch", !.bg_chamadas = @ + 1]
      ELSE [t EXCEPT !.pc = "bg_set", !.env = envelope_completo(ret, v),
                     !.bg_chamadas = @ + 1]

\* _background_full_fetch / _background_full_fetch_docs once listar_* has
\* ended with `ret`: an exception is logged and the task ends
apos_bg_fetch(t, ret, v) ==
    IF ret.tipo = "raise"
      THEN [t EXCEPT !.pc = "bg_fim", !.bg = "falhou", !.bg_chamadas = @ + 1]
      ELSE [t EXCEPT !.pc = "bg_set", !.env = envelope_completo(ret, v),
                     !.bg_chamadas = @ + 1]

InitProxy ==
    /\ cache = [k \in Chaves |-> Ausente]
    /\ versao = 0
    /\ tarefas = <<>>
    /\ assinaturas = <<>>
    /\ total_itens \in TotaisProxy

FetchParado ==
    /\ recurso \in RecursosProxy
    /\ modo = "nenhum"
    /\ pc = "parado"
    /\ resp_descoberta = Nenhum
    /\ primeira_pagina = <<>>
    /\ resultados_por_pagina = <<>>
    /\ paginas_pendentes = <<>>
    /\ paginas_falhadas = <<>>
    /\ rodada = 0
    /\ i_lote = 0
    /\ lote = <<>>
    /\ em_voo = {}
    /\ respostas = SemRespostas
    /\ ruins = {}
    /\ esgotadas = {}
    /\ boas = {}
    /\ desordem = FALSE
    /\ pedidos = <<>>
    /\ retorno = SemRetorno

ForaDoProxy == UNCHANGED <<varsRetry, varsFetch, varsCache, varsReset, varsUltimos>>

\* the process and unit the requests of a run ask for; the resource they
\* ask for is `recurso`, so they all meet on one cache key
Alvos == {<<"P1", "U1">>}

\* the units the signature requests of a run name
UnidadesAssinatura == {alvo[2] : alvo \in Alvos}

\* a request arrives and its cache.get is answered
Pedido ==
    /\ Len(tarefas) < MaxPedidos
    /\ \E alvo \in Alvos,
          parcial \in (IF recurso = "unidades" THEN {FALSE} ELSE BOOLEAN) :
         tarefas' = Append(tarefas,
             apos_cache_get(NovaTarefa(recurso, alvo[1], alvo[2], parcial),
                            cache[Chave(recurso, alvo[1], alvo[2])]))
    /\ UNCHANGED <<cache, versao, assinaturas>>
    /\ ForaDoProxy

\* what a listing read from the upstream now shows of the signatures: the
\* documents listing shows every signature applied, the andamentos listing
\* is not touched by them
estado_upstream(rec) == IF rec = "documentos" THEN versao ELSE 0

\* the call of listar_*_parcial / listar_* / consultar_procedimento of
\* request i ends
Fetch(i) ==
    /\ tarefas[i].pc = "fetch"
    /\ LET t == tarefas[i] IN
         IF t.rec = "unidades"
           THEN \E d \in DesfechosProxy :
                   tarefas' = [tarefas EXCEPT ![i] = apos_consulta(t, consultar(d))]
           ELSE \E ret \in (IF t.parcial THEN FinsParcial[t.rec, total_itens]
                                         ELSE FinsCompleto[t.rec, total_itens]) :
                   tarefas' = [tarefas EXCEPT ![i] =
                                  apos_fetch(t, ret, estado_upstream(t.rec))]
    /\ UNCHANGED <<cache, versao, assinaturas>>
    /\ ForaDoProxy

\* cache.set of request i, then `return resultado`
CacheSet(i) ==
    /\ tarefas[i].pc = "set"
    /\ LET t == tarefas[i] IN
         /\ cache' = cache_set(cache, Chave(t.rec, t.proc, t.unid), t.env)
         /\ tarefas' = [tarefas EXCEPT ![i] =
                           [t EXCEPT !.pc = "fim", !.resp = RespostaOk(t.env)]]
    /\ UNCHANGED <<versao, assinaturas>>
    /\ ForaDoProxy

\* the call of listar_* of the background task of request i ends
BgFetch(i) ==
    /\ tarefas[i].pc = "bg_fetch"
    /\ LET t == tarefas[i] IN
         \E ret \in FinsCompleto[t.rec, total_itens] :
            tarefas' = [tarefas EXCEPT ![i] =
                           apos_bg_fetch(t, ret, estado_upstream(t.rec))]
    /\ UNCHANGED <<cache, versao, assinaturas>>
    /\ ForaDoProxy

\* cache.set of the background task of request i
BgSet(i) ==
    /\ tarefas[i].pc = "bg_set"
    /\ LET t == tarefas[i] IN
         /\ cache' = cache_set(cache, Chave(t.rec, t.proc, t.unid), t.env)
         /\ tarefas' = [tarefas EXCEPT ![i] = [t EXCEPT !.pc = "bg_fim", !.bg = "ok"]]
    /\ UNCHANGED <<versao, assinaturas>>
    /\ ForaDoProxy

\* sei_assinar_documento: the PATCH is answered; on 200/204 the upstream has
\* applied the signature, on another status assinar_documento raises
Assinar ==
    /\ Len(assinaturas) < MaxAssinaturas
    /\ \E unid \in UnidadesAssinatura, status \in {204, 422} :
         IF status \in {200, 204}
           THEN /\ versao' = versao + 1
                /\ assinaturas' = Append(assinaturas,
                      [unid |-> unid, pc |-> "clear", status |-> status,
                       versao |-> versao + 1])
           ELSE /\ versao' = versao
                /\ assinaturas' = Append(assinaturas,
                      [unid |-> unid, pc |-> "fim", status |-> status,
                       versao |-> versao])
    /\ UNCHANGED <<cache, tarefas>>
    /\ ForaDoProxy

\* sei_assinar_documento: cache.clear_pattern(f"proxy:documentos:*:{id_unidade}")
Invalidar(j) ==
    /\ assinaturas[j].pc = "clear"
    /\ cache' = clear_pattern(cache,
                    <<"proxy", "documentos", "*", assinaturas[j].unid>>)
    /\ assinaturas' = [assinaturas EXCEPT ![j].pc = "fim"]
    /\ UNCHANGED <<versao, tarefas>>
    /\ ForaDoProxy

----------------------------------------------------------------------------
(* SpecCache: RedisCache (src/api/cache.py) against the Redis server, one  *)
(* awaited command at a time, as the routes and background tasks call it   *)

\* callers in a run
MaxChamadas == 2
\* keys one SCAN step examines (the COUNT hint of cache.py:162, scaled down)
TamanhoScan == 2

\* Python values, as far as the cache and its callers tell them apart
Py(t, id, n) == [t |-> t, id |-> id, n |-> n]
PyNone == Py("none", "", 0)
PyBool(b) == Py("bool", IF b THEN "True" ELSE "False", 0)
PyInt(n) == Py("int", "", n)
PyDict(id) == Py("dict", id, 0)
PyStr(id) == Py("str", id, 0)

\* Python truth value: None, False, 0 and "" are false; the dicts the
\* routes build are never empty
truthy(v) ==
    CASE v.t = "none" -> FALSE
      [] v.t = "bool" -> v.id = "True"
      [] v.t = "int" -> v.n # 0
      [] v.t = "str" -> v.id # ""
      [] OTHER -> TRUE

\* the values the callers store: two envelopes and an empty text
\* (routes/processo.py:658-681)
ValoresCache == {PyDict("A"), PyDict("B"), PyStr("")}

\* ttl arguments in days: CACHE_TTL_* = 86400 s, CACHE_TTL = 172800 s
TTLs == {1, 2}

\* orjson.dumps(value).decode('utf-8'): the JSON text of a value; that of
\* the empty string is the two characters ""
dumps(v) ==
    CASE v.t = "none" -> <<"null">>
      [] v.t = "str" -> <<"\"", v.id, "\"">>
      [] v.t = "dict" -> <<"{", v.id, "}">>
      [] OTHER -> <<"?">>

\* orjson.loads(text)
loads(txt) ==
    CASE txt = <<"null">> -> PyNone
      [] Len(txt) = 3 /\ txt[1] = "\"" -> PyStr(txt[2])
      [] Len(txt) = 3 /\ txt[1] = "{" -> PyDict(txt[2])
      [] OTHER -> PyNone

\* the keyspace in the order SCAN walks it
EspacoChaves ==
    << Chave("documentos", "P1", "U1"), Chave("andamentos", "P1", "U1"),
       Chave("documentos", "P1", "U2"), Chave("unidades", "P1", "U1"),
       Chave("documentos", "P2", "U1") >>

ChavesRedis == seq_set(EspacoChaves)

\* the keys the modelled callers read and write
ChavesPedido == {Chave("documentos", "P1", "U1"), Chave("andamentos", "P1", "U1")}

\* sei_assinar_documento: proxy:documentos:*:{id_unidade};
\* sei_invalidar_cache: proxy:{recurso}:{numero_processo}:*
Padroes ==
    {<<"proxy", "documentos", "*", u>> : u \in Unidades}
      \cup {<<"proxy", r, "P1", "*">> : r \in RecursosProxy}

\* an entry of the keyspace; no entry is the empty text with no time to live
Entrada(txt, ttl) == [texto |-> txt, ttl |-> ttl]
SemEntrada == Entrada(<<>>, 0)

\* Redis SETEX / GET / DEL
redis_setex(db, k, ttl, txt) == [db EXCEPT ![k] = Entrada(txt, ttl)]
redis_get(db, k) == db[k].texto
redis_del(db, ks) == [k \in DOMAIN db |-> IF k \in ks THEN SemEntrada ELSE db[k]]
\* the reply of DEL: the number of keys that existed
resposta_del(db, ks) == Cardinality({k \in ks : db[k] # SemEntrada})

\* Redis SCAN cursor MATCH padrao COUNT n: the step examines the next
\* TamanhoScan keys and replies with the cursor to go on from (0 at the end)
\* and the matching keys among them
redis_scan(db, cursor, padrao) ==
    LET fim == Min(cursor + TamanhoScan, Len(EspacoChaves)) IN
      [cursor |-> IF fim = Len(EspacoChaves) THEN 0 ELSE fim,
       keys |-> {EspacoChaves[n] : n \in
                    {m \in (cursor + 1)..fim :
                        /\ db[EspacoChaves[m]] # SemEntrada
                        /\ casa(padrao, EspacoChaves[m])}}]

\* one day passes
redis_tick(db) ==
    [k \in DOMAIN db |->
        IF db[k].ttl <= 1 THEN SemEntrada ELSE Entrada(db[k].texto, db[k].ttl - 1)]

\* what a call gives its caller
Retorna(v) == [tipo |-> "return", valor |-> v]
Levanta == [tipo |-> "raise", valor |-> PyNone]
SemRet == [tipo |-> "none", valor |-> PyNone]

\* mutant: get lets the exception of the Redis command through
retorno_get_propaga(falha, value) ==
    IF falha THEN Levanta
    ELSE IF value # <<>> THEN Retorna(loads(value))
    ELSE Retorna(PyNone)

\* mutant: get tests the decoded value instead of the text
retorno_get_testa_valor(falha, value) ==
    IF falha THEN Retorna(PyNone)
    ELSE IF value # <<>> /\ truthy(loads(value)) THEN Retorna(loads(value))
    ELSE Retorna(PyNone)

\* RedisCache.get, cache.py:81-89: `if value: return orjson.loads(value)`,
\* None when there is no value or the command raised
retorno_get(falha, value) ==
    IF falha THEN Retorna(PyNone)
    ELSE IF value # <<>> THEN Retorna(loads(value))
    ELSE Retorna(PyNone)

\* RedisCache.set, cache.py:109-116
retorno_set(falha) == Retorna(PyBool(~falha))

\* mutant: clear_pattern counts the keys SCAN replied with
contagem_scan(db, ks) == Cardinality(ks)

\* RedisCache.clear_pattern, cache.py:164: deleted += await delete(*keys)
contagem(db, ks) == resposta_del(db, ks)

\* RedisCache.clear_pattern, cache.py:166-171
retorno_clear(falha, deleted) == Retorna(PyInt(IF falha THEN 0 ELSE deleted))

\* the value returned when redis_client is None (cache.py:77-78, 105-106,
\* 155-156)
retorno_sem_cliente(nome) ==
    CASE nome = "get" -> Retorna(PyNone)
      [] nome = "set" -> Retorna(PyBool(FALSE))
      [] OTHER -> Retorna(PyInt(0))

SemChamada ==
    [rota |-> "nenhuma", nome |-> "nenhuma", pc |-> "fim", chave |-> <<>>,
     padrao |-> <<>>, valor |-> PyNone, ttl |-> 0, cursor |-> 0, keys |-> {},
     deleted |-> 0, ret |-> SemRet, erro |-> FALSE, removidas |-> {},
     concorrente |-> FALSE, erro_get |-> FALSE, resultado |-> PyNone,
     resp |-> SemRet]

\* entry of get / set / clear_pattern: `if not self._connected: await
\* self.connect()`
entrada(con) == IF con THEN "cmd" ELSE "connect"

\* the caller once the call has ended with ret.
\* sei_unidades_abertas and the like (sei_proxy.py:150-162): a truthy value
\* from get is returned, otherwise the upstream is asked; the value of set
\* is not looked at and the upstream's result is returned.  The background
\* tasks and sei_assinar_documento do nothing with the value.
apos_chamada(ch, ret, falha) ==
    LET c == [ch EXCEPT !.ret = ret, !.erro = @ \/ falha] IN
    IF ret.tipo = "raise" THEN [c EXCEPT !.pc = "fim", !.resp = Levanta]
    ELSE IF ch.rota = "rota_get" /\ ch.nome = "get"
      THEN IF truthy(ret.valor) THEN [c EXCEPT !.pc = "fim", !.resp = ret]
           ELSE [c EXCEPT !.pc = "fetch"]
    ELSE IF ch.rota = "rota_get"
      THEN [c EXCEPT !.pc = "fim", !.resp = Retorna(ch.resultado)]
    ELSE [c EXCEPT !.pc = "fim", !.resp = Retorna(PyNone)]

SemGravado == [vale |-> FALSE, valor |-> PyNone, resta |-> 0]

\* the keyspace at the start of a run: empty, or every key written a
\* moment ago with a life of two days
InitCache ==
    /\ redis_up \in BOOLEAN
    /\ \E cheio \in BOOLEAN :
         /\ redis_db = [k \in ChavesRedis |->
                          IF cheio THEN Entrada(dumps(PyDict("A")), 2)
                          ELSE SemEntrada]
         /\ gravado = [k \in ChavesRedis |->
                          IF cheio THEN [vale |-> TRUE, valor |-> PyDict("A"),
                                         resta |-> 2]
                          ELSE SemGravado]
    \* main.py:32 has called cache.connect() at startup
    /\ conectado = redis_up
    /\ cliente = redis_up
    /\ chamada = SemChamada
    /\ feitas = 0

ForaDoCache == UNCHANGED <<varsRetry, varsFetch, varsProxy, varsReset, varsUltimos>>

Livre == chamada.pc = "fim" /\ feitas < MaxChamadas

\* a request of a cached GET route arrives: cache.get(cache_key)
PedidoGet ==
    /\ Livre
    /\ \E k \in ChavesPedido :
         chamada' = [SemChamada EXCEPT !.rota = "rota_get", !.nome = "get",
                                       !.chave = k, !.pc = entrada(conectado)]
    /\ feitas' = feitas + 1
    /\ UNCHANGED <<redis_up, redis_db, conectado, cliente, gravado>>
    /\ ForaDoCache

\* the route's upstream call returns; cache.set(cache_key, resultado, ttl)
Buscar ==
    /\ chamada.pc = "fetch"
    /\ \E v \in {PyDict("A"), PyDict("B")} :
         chamada' = [chamada EXCEPT !.nome = "set", !.valor = v, !.ttl = 1,
                                    !.resultado = v, !.pc = entrada(conectado),
                                    !.ret = SemRet, !.erro = FALSE,
                                    !.erro_get = chamada.erro]
    /\ UNCHANGED <<redis_up, redis_db, conectado, cliente, feitas, gravado>>
    /\ ForaDoCache

\* a background task or a route of routes/processo.py stores its result:
\* cache.set(cache_key, resultado, ttl)
TarefaBg ==
    /\ Livre
    /\ \E k \in ChavesPedido, v \in ValoresCache, ttl \in TTLs :
         chamada' = [SemChamada EXCEPT !.rota = "bg", !.nome = "set",
                                       !.chave = k, !.valor = v, !.ttl = ttl,
                                       !.pc = entrada(conectado)]
    /\ feitas' = feitas + 1
    /\ UNCHANGED <<redis_up, redis_db, conectado, cliente, gravado>>
    /\ ForaDoCache

\* sei_assinar_documento / sei_invalidar_cache: cache.clear_pattern(padrao)
Invalidacao ==
    /\ Livre
    /\ \E p \in Padroes :
         chamada' = [SemChamada EXCEPT !.rota = "invalidacao",
                                       !.nome = "clear_pattern", !.padrao = p,
                                       !.pc = entrada(conectado)]
    /\ feitas' = feitas + 1
    /\ UNCHANGED <<redis_up, redis_db, conectado, cliente, gravado>>
    /\ ForaDoCache

\* RedisCache.connect (cache.py:18-46) and the test of redis_client that
\* follows it in the caller
Conectar ==
    /\ chamada.pc = "connect"
    /\ IF redis_up
         THEN /\ conectado' = TRUE
              /\ cliente' = TRUE
              /\ chamada' = [chamada EXCEPT !.pc = "cmd"]
         ELSE /\ conectado' = FALSE
              /\ cliente' = FALSE
              /\ chamada' = apos_chamada(chamada,
                                retorno_sem_cliente(chamada.nome), TRUE)
    /\ UNCHANGED <<redis_up, redis_db, feitas, gravado>>
    /\ ForaDoCache

\* RedisCache.get: await self.redis_client.get(key)
ComandoGet ==
    /\ chamada.nome = "get" /\ chamada.pc = "cmd"
    /\ chamada' = apos_chamada(chamada,
                     retorno_get(~redis_up, redis_get(redis_db, chamada.chave)),
                     ~redis_up)
    /\ UNCHANGED <<redis_up, redis_db, conectado, cliente, feitas, gravado>>
    /\ ForaDoCache

\* RedisCache.set: await self.redis_client.setex(key, ttl, serialized_value)
ComandoSet ==
    /\ chamada.nome = "set" /\ chamada.pc = "cmd"
    /\ chamada' = apos_chamada(chamada, retorno_set(~redis_up), ~redis_up)
    /\ IF redis_up
         THEN /\ redis_db' = redis_setex(redis_db, chamada.chave, chamada.ttl,
                                         dumps(chamada.valor))
              /\ gravado' = [gravado EXCEPT ![chamada.chave] =
                               [vale |-> TRUE, valor |-> chamada.valor,
                                resta |-> chamada.ttl]]
         ELSE UNCHANGED <<redis_db, gravado>>
    /\ UNCHANGED <<redis_up, conectado, cliente, feitas>>
    /\ ForaDoCache

\* RedisCache.clear_pattern: cursor, keys = await scan(cursor, match=pattern)
Scan ==
    /\ chamada.nome = "clear_pattern" /\ chamada.pc = "cmd"
    /\ IF ~redis_up
         THEN chamada' = apos_chamada(chamada,
                             retorno_clear(TRUE, chamada.deleted), TRUE)
         ELSE LET r == redis_scan(redis_db, chamada.cursor, chamada.padrao)
                  c == [chamada EXCEPT !.cursor = r.cursor, !.keys = r.keys]
              IN IF r.keys # {} THEN chamada' = [c EXCEPT !.pc = "delete"]
                 ELSE IF r.cursor = 0
                   THEN chamada' = apos_chamada(c,
                                       retorno_clear(FALSE, c.deleted), FALSE)
                 ELSE chamada' = c
    /\ UNCHANGED <<redis_up, redis_db, conectado, cliente, feitas, gravado>>
    /\ ForaDoCache

\* RedisCache.clear_pattern: deleted += await delete(*keys); the loop ends
\* when the cursor is 0
Delete ==
    /\ chamada.nome = "clear_pattern" /\ chamada.pc = "delete"
    /\ IF ~redis_up
         THEN /\ chamada' = apos_chamada(chamada,
                                retorno_clear(TRUE, chamada.deleted), TRUE)
              /\ UNCHANGED <<redis_db, gravado>>
         ELSE LET c == [chamada EXCEPT
                          !.deleted = @ + contagem(redis_db, chamada.keys),
                          !.removidas = @ \cup {k \in chamada.keys :
                                                  redis_db[k] # SemEntrada},
                          !.keys = {}]
              IN /\ redis_db' = redis_del(redis_db, chamada.keys)
                 /\ gravado' = [k \in DOMAIN gravado |->
                                  IF k \in chamada.keys THEN SemGravado
                                  ELSE gravado[k]]
                 /\ IF chamada.cursor = 0
                      THEN chamada' = apos_chamada(c,
                                          retorno_clear(FALSE, c.deleted), FALSE)
                      ELSE chamada' = [c EXCEPT !.pc = "cmd"]
    /\ UNCHANGED <<redis_up, conectado, cliente, feitas>>
    /\ ForaDoCache

\* a day passes: every time to live goes down, entries at their end go
Tick ==
    /\ \E k \in ChavesRedis : redis_db[k] # SemEntrada
    /\ redis_db' = redis_tick(redis_db)
    /\ gravado' = [k \in DOMAIN gravado |->
                     IF gravado[k].vale /\ gravado[k].resta > 0
                       THEN [gravado[k] EXCEPT !.resta = @ - 1]
                       ELSE gravado[k]]
    /\ UNCHANGED <<redis_up, conectado, cliente, chamada, feitas>>
    /\ ForaDoCache

\* the server stops answering / answers again
Cair ==
    /\ redis_up
    /\ redis_up' = FALSE
    /\ UNCHANGED <<redis_db, conectado, cliente, chamada, feitas, gravado>>
    /\ ForaDoCache

Voltar ==
    /\ ~redis_up
    /\ redis_up' = TRUE
    /\ UNCHANGED <<redis_db, conectado, cliente, chamada, feitas, gravado>>
    /\ ForaDoCache

\* while a clear_pattern is under way another worker's cache.set lands
EscritaConcorrente ==
    /\ chamada.nome = "clear_pattern" /\ chamada.pc \in {"cmd", "delete"}
    /\ redis_up
    /\ ~chamada.concorrente
    /\ LET k == Chave("documentos", "P1", "U1") IN
         /\ redis_db' = redis_setex(redis_db, k, 1, dumps(PyDict("B")))
         /\ gravado' = [gravado EXCEPT ![k] =
                          [vale |-> TRUE, valor |-> PyDict("B"), resta |-> 1]]
    /\ chamada' = [chamada EXCEPT !.concorrente = TRUE]
    /\ UNCHANGED <<redis_up, conectado, cliente, feitas>>
    /\ ForaDoCache

----------------------------------------------------------------------------
(* Process numbers, the cache keys made from them, and the routes that
   clear them: src/api/normalization.py, src/api/routes/admin.py:110-152,
   src/api/routes/sei_proxy.py:395-408 *)

Digitos == {"0", "1", "2", "3", "4", "5", "6", "7", "8", "9"}

\* a process number in the punctuated form NNNNN.NNNNNN/AAAA-DD, shortened to
\* one digit a group; a text is the sequence of its characters
NumerosPontuados == { <<"1", ".", "2", "/", "3", "-", "4">> }

\* re.sub(r'\D', '', numero)
normalizar_numero_processo(numero) ==
    SelectSeq(numero, LAMBDA c : c \in Digitos)

\* the forms a request may carry: punctuated, or digits only
NumerosAceitos ==
    NumerosPontuados \cup {normalizar_numero_processo(n) : n \in NumerosPontuados}

\* f"andamento:{numero_processo}" (cache.py:263-273)
gerar_chave_andamento(numero) == <<"andamento", ":">> \o numero

\* f"resumo:{numero_processo}" (cache.py:276-286)
gerar_chave_resumo(numero) == <<"resumo", ":">> \o numero

\* f"processo:{numero_processo}:resumo_completo" (routes/processo.py:224)
chave_resumo_completo(numero) ==
    <<"processo", ":">> \o numero \o <<":", "resumo_completo">>

\* f"proxy:{rec}:{numero_processo}:{id_unidade}" (sei_proxy.py:63, 149, 178)
chave_proxy(rec, numero, unid) ==
    <<"proxy", ":", rec, ":">> \o numero \o <<":", unid>>

RecursosCache == {"andamentos", "unidades", "documentos"}

\* the keys the routes create for a request that carries `numero`: every one
\* of them normalises the number first (routes/processo.py:46, 131, 221;
\* sei_proxy.py:62, 148, 177)
chaves_criadas(numero) ==
    LET n == normalizar_numero_processo(numero) IN
      {gerar_chave_andamento(n), gerar_chave_resumo(n), chave_resumo_completo(n)}
        \cup {chave_proxy(rec, n, "U1") : rec \in RecursosCache}

\* the keys that belong to the process a number names, in either form
chaves_do_processo(numero) == chaves_criadas(numero)

\* Redis MATCH of a key against a glob pattern whose only special character
\* is a final "*" (digits, ".", "/" and "-" stand for themselves)
casa_texto(padrao, chave) ==
    IF padrao # <<>> /\ padrao[Len(padrao)] = "*"
      THEN /\ Len(chave) >= Len(padrao) - 1
           /\ SubSeq(chave, 1, Len(padrao) - 1) = SubSeq(padrao, 1, Len(padrao) - 1)
      ELSE chave = padrao

\* cache.clear_pattern(padrao), when the server answers: the keys left
\* (cache.py:158-168)
clear_pattern_texto(chaves, padrao) == {k \in chaves : ~casa_texto(padrao, k)}

\* the patterns of reset_cache_processo, built from the path parameter as it
\* came (admin.py:133-140)
padroes_reset(numero) ==
    << <<"processo", ":">> \o numero \o <<":", "*">>,
       <<"andamento", ":">> \o numero,
       <<"resumo", ":">> \o numero,
       <<"proxy", ":", "andamentos", ":">> \o numero \o <<":", "*">>,
       <<"proxy", ":", "unidades", ":">> \o numero \o <<":", "*">>,
       <<"proxy", ":", "documentos", ":">> \o numero \o <<":", "*">> >>

\* the patterns of sei_invalidar_cache, built from the normalised number
\* (sei_proxy.py:401-407)
padroes_invalidar(numero) ==
    LET n == normalizar_numero_processo(numero) IN
      << <<"proxy", ":", "andamentos", ":">> \o n \o <<":", "*">>,
         <<"proxy", ":", "unidades", ":">> \o n \o <<":", "*">>,
         <<"proxy", ":", "documentos", ":">> \o n \o <<":", "*">> >>

\* `for pattern in [...]: deleted += await cache.clear_pattern(pattern)`, of
\* which the first `vivos` calls reach the server; a call that does not
\* returns 0 and deletes nothing (cache.py:155-156, 169-171)
RECURSIVE limpar_padroes(_, _, _, _)
limpar_padroes(chaves, padroes, i, vivos) ==
    IF i > Len(padroes) \/ i > vivos THEN chaves
    ELSE limpar_padroes(clear_pattern_texto(chaves, padroes[i]), padroes, i + 1, vivos)

SemReset == [rota |-> "nenhuma", numero |-> <<>>, status |-> 0, completo |-> FALSE]

\* the return of an invalidation route; `completo` records that every
\* clear_pattern of the call reached the server
RetornoReset(rota, numero, status, completo) ==
    [rota |-> rota, numero |-> numero, status |-> status, completo |-> completo]

InitReset ==
    /\ chaves_redis = {}
    /\ redis_disponivel = TRUE
    /\ reset_retorno = SemReset

ForaDoReset == UNCHANGED <<varsRetry, varsFetch, varsProxy, varsCache, varsUltimos>>

\* a cached route serves a request for `numero` and stores its result
CriarChave ==
    /\ \E numero \in NumerosAceitos :
         \E k \in chaves_criadas(numero) :
            /\ k \notin chaves_redis
            /\ chaves_redis' = chaves_redis \cup {k}
    /\ UNCHANGED <<redis_disponivel, reset_retorno>>
    /\ ForaDoReset

\* DELETE /admin/cache/processo/{numero_processo} (admin.py:110-152)
ResetCacheProcesso ==
    /\ \E numero \in NumerosAceitos :
         IF ~redis_disponivel
           THEN /\ reset_retorno' = RetornoReset("reset", numero, 503, FALSE)
                /\ UNCHANGED chaves_redis
           ELSE \E vivos \in 0..Len(padroes_reset(numero)) :
                  /\ chaves_redis' =
                        limpar_padroes(chaves_redis, padroes_reset(numero), 1, vivos)
                  /\ reset_retorno' =
                        RetornoReset("reset", numero, 200,
                                     vivos = Len(padroes_reset(numero)))
    /\ UNCHANGED redis_disponivel
    /\ ForaDoReset

\* DELETE /sei/cache/{numero_processo} (sei_proxy.py:395-416): no
\* availability check, the clear_pattern calls fail silently
SeiInvalidarCache ==
    /\ \E numero \in NumerosAceitos :
         \E vivos \in (IF redis_disponivel
                         THEN 0..Len(padroes_invalidar(numero)) ELSE {0}) :
            /\ chaves_redis' =
                  limpar_padroes(chaves_redis, padroes_invalidar(numero), 1, vivos)
            /\ reset_retorno' =
                  RetornoReset("invalidar", numero, 200,
                               vivos = Len(padroes_invalidar(numero)))
    /\ UNCHANGED redis_disponivel
    /\ ForaDoReset

\* the Redis server stops or starts answering ping
RedisMuda ==
    /\ redis_disponivel' = ~redis_disponivel
    /\ UNCHANGED <<chaves_redis, reset_retorno>>
    /\ ForaDoReset

----------------------------------------------------------------------------
(* listar_ultimos_andamentos, src/api/sei.py:362-424 *)

\* largest `quantidade` a call is made with (routes/processo.py:654 passes 3)
MaxQuantidade == 12

\* TotalItens of the processes asked about: none, one page, two pages with a
\* short and a full last page, three pages
TotaisUltimos == {0, 7, 10, 11, 20, 21, 25}

\* lista[-quantidade:] for quantidade >= 1: the last min(quantidade, len) items
ultimos(lista, quantidade) ==
    SubSeq(lista, Len(lista) - Min(quantidade, Len(lista)) + 1, Len(lista))

\* the request answered 200 with a body json() parses to an object
corpo_objeto(d) ==
    d.tipo = "response" /\ d.status = 200 /\ d.corpo \in {"lista", "sem_chave", "chave_nula"}

\* what the call does next: return `itens`, or go on to another request
UaFim(itens) == [fim |-> TRUE, itens |-> itens]
UaSegue == [fim |-> FALSE, itens |-> <<>>]

\* after the request of page 1 (sei.py:369-389): an exception, a status other
\* than 200 or a body that is no object returns []; so does TotalItens = 0;
\* a collection of one page returns andamentos[-quantidade:] (None under the
\* key raises TypeError, caught at 422-424)
ua_apos_primeira(d, total, quantidade) ==
    IF ~corpo_objeto(d) THEN UaFim(<<>>)
    ELSE IF total = 0 THEN UaFim(<<>>)
    ELSE IF total <= 10
      THEN IF d.corpo = "lista"
             THEN UaFim(ultimos(pagina_upstream(total, 1), quantidade))
             ELSE UaFim(<<>>)
    ELSE UaSegue

\* response.json().get("Andamentos", []) of a 200 response whose body is an
\* object that holds a list or lacks the key
ua_andamentos(d, total, p) ==
    IF d.corpo = "lista" THEN pagina_upstream(total, p) ELSE <<>>

\* after the request of the last page (sei.py:395-410): a failure returns [];
\* a page of at least `quantidade` items returns its last `quantidade`;
\* otherwise the penultimate page is requested (total_paginas >= 2 here)
ua_apos_ultima(d, total, quantidade) ==
    IF ~corpo_objeto(d) \/ d.corpo = "chave_nula" THEN UaFim(<<>>)
    ELSE LET ultima == ua_andamentos(d, total, total_paginas(total)) IN
           IF Len(ultima) >= quantidade THEN UaFim(ultimos(ultima, quantidade))
           ELSE IF total_paginas(total) >= 2 THEN UaSegue
           ELSE UaFim(ultimos(ultima, quantidade))

\* after the request of the penultimate page (sei.py:413-421): a 200 response
\* returns (penultima + ultima)[-quantidade:], another response returns
\* ultima[-quantidade:], an exception returns []
ua_apos_penultima(d, total, quantidade, ultima) ==
    IF d.tipo # "response" THEN <<>>
    ELSE IF d.status # 200 THEN ultimos(ultima, quantidade)
    ELSE IF ~corpo_objeto(d) \/ d.corpo = "chave_nula" THEN <<>>
    ELSE ultimos(ua_andamentos(d, total, total_paginas(total) - 1) \o ultima,
                 quantidade)

UaNenhum == [tipo |-> "none", itens |-> <<>>]
UaRetornou(itens) == [tipo |-> "return", itens |-> itens]

InitUltimos ==
    /\ ua_quantidade \in 1..MaxQuantidade
    /\ ua_total \in TotaisUltimos
    /\ ua_pc = "primeira"
    /\ ua_ultima = <<>>
    /\ ua_falhas = 0
    /\ ua_retorno = UaNenhum

ForaDeUltimos == UNCHANGED <<varsRetry, varsFetch, varsProxy, varsCache, varsReset>>

\* the request did not answer 200 with the documented body
ua_falha(d) == IF d = Resposta(200) THEN 0 ELSE 1

\* _fazer_requisicao_com_retry for page 1 ends with the outcome d
UltimosPrimeira ==
    /\ ua_pc = "primeira"
    /\ \E d \in DesfechosPagina :
         LET r == ua_apos_primeira(d, ua_total, ua_quantidade) IN
           /\ ua_falhas' = ua_falhas + ua_falha(d)
           /\ ua_pc' = IF r.fim THEN "fim" ELSE "ultima"
           /\ ua_retorno' = IF r.fim THEN UaRetornou(r.itens) ELSE ua_retorno
    /\ UNCHANGED <<ua_quantidade, ua_total, ua_ultima>>
    /\ ForaDeUltimos

\* _fazer_requisicao_com_retry for the last page ends with the outcome d
UltimosUltima ==
    /\ ua_pc = "ultima"
    /\ \E d \in DesfechosPagina :
         LET r == ua_apos_ultima(d, ua_total, ua_quantidade) IN
           /\ ua_falhas' = ua_falhas + ua_falha(d)
           /\ ua_pc' = IF r.fim THEN "fim" ELSE "penultima"
           /\ ua_retorno' = IF r.fim THEN UaRetornou(r.itens) ELSE ua_retorno
           /\ ua_ultima' = IF r.fim THEN ua_ultima
                           ELSE ua_andamentos(d, ua_total, total_paginas(ua_total))
    /\ UNCHANGED <<ua_quantidade, ua_total>>
    /\ ForaDeUltimos

\* _fazer_requisicao_com_retry for the penultimate page ends with the outcome d
UltimosPenultima ==
    /\ ua_pc = "penultima"
    /\ \E d \in DesfechosPagina :
         /\ ua_falhas' = ua_falhas + ua_falha(d)
         /\ ua_retorno' =
              UaRetornou(ua_apos_penultima(d, ua_total, ua_quantidade, ua_ultima))
    /\ ua_pc' = "fim"
    /\ UNCHANGED <<ua_quantidade, ua_total, ua_ultima>>
    /\ ForaDeUltimos

----------------------------------------------------------------------------
(* Specifications *)

ParadoRetry ==
    /\ max_tentativas = 0
    /\ tentativa = 0
    /\ rq_estado = "parado"
    /\ rq_resultado = Nenhum
    /\ rq_hist = <<>>
    /\ pg_pagina = 0
    /\ pg_retorno = SemPagina
    /\ gw_funcao = "nenhuma"
    /\ gw_retorno = Nenhum

ParadoFetch ==
    /\ recurso = "nenhum"
    /\ modo = "nenhum"
    /\ total_itens = 0
    /\ pc = "parado"
    /\ resp_descoberta = Nenhum
    /\ primeira_pagina = <<>>
    /\ resultados_por_pagina = <<>>
    /\ paginas_pendentes = <<>>
    /\ paginas_falhadas = <<>>
    /\ rodada = 0
    /\ i_lote = 0
    /\ lote = <<>>
    /\ em_voo = {}
    /\ respostas = SemRespostas
    /\ ruins = {}
    /\ esgotadas = {}
    /\ boas = {}
    /\ desordem = FALSE
    /\ pedidos = <<>>
    /\ retorno = SemRetorno

ParadoProxy ==
    /\ cache = <<>>
    /\ versao = 0
    /\ tarefas = <<>>
    /\ assinaturas = <<>>

ParadoCache ==
    /\ redis_up = FALSE
    /\ redis_db = <<>>
    /\ conectado = FALSE
    /\ cliente = FALSE
    /\ chamada = SemChamada
    /\ feitas = 0
    /\ gravado = <<>>

ParadoReset ==
    /\ chaves_redis = {}
    /\ redis_disponivel = FALSE
    /\ reset_retorno = SemReset

ParadoUltimos ==
    /\ ua_quantidade = 0
    /\ ua_total = 0
    /\ ua_pc = "parado"
    /\ ua_ultima = <<>>
    /\ ua_falhas = 0
    /\ ua_retorno = UaNenhum

NextRetry == Tentar

InitSpecRetry == InitRetry /\ ParadoFetch /\ ParadoProxy /\ ParadoCache /\ ParadoReset /\ ParadoUltimos

SpecRetry == InitSpecRetry /\ [][NextRetry]_vars

NextPagina ==
    \/ TentarPagina
    \/ PaginaRetorna

InitSpecPagina ==
    /\ InitPagina /\ FetchParado /\ total_itens \in TotaisPagina
    /\ ParadoProxy /\ ParadoCache /\ ParadoReset /\ ParadoUltimos

SpecPagina == InitSpecPagina /\ [][NextPagina]_vars

NextGet ==
    \/ Tentar
    \/ GetRetorna

InitSpecGet ==
    /\ InitGet /\ FetchParado /\ total_itens \in TotaisPagina
    /\ ParadoProxy /\ ParadoCache /\ ParadoReset /\ ParadoUltimos

SpecGet == InitSpecGet /\ [][NextGet]_vars

NextFetch ==
    \/ Descobrir
    \/ Responder
    \/ UltimaRetorna
    \/ LoteRetorna
    \/ ParcialRetorna

InitSpecFetch == ParadoRetry /\ InitFetch /\ ParadoProxy /\ ParadoCache /\ ParadoReset /\ ParadoUltimos

SpecFetch == InitSpecFetch /\ [][NextFetch]_vars

\* the positions of a call
EstadosPc ==
    {"descoberta", "ultima", "lote", "gather_todas", "gather_parciais",
     "ultima_parcial", "fim"}

\* a step of a call that has not ended, as its position and its outstanding
\* requests show it: every step of NextFetch changes pc or em_voo, and one is
\* possible whenever pc is not "fim"
Progresso ==
    /\ pc # "fim"
    /\ pc' \in EstadosPc
    /\ em_voo' \in SUBSET (1..Max(1, total_paginas(total_itens)))

\* every request is answered or times out (the timeout=60 of sei.py:27 and
\* of each caller), so an outstanding request does not stay outstanding
\* forever; the other steps are the coroutine's own code, which the event
\* loop resumes once the awaited requests are done. Hence a call that has not
\* ended eventually takes a step.
FairSpecFetch ==
    /\ InitSpecFetch
    /\ [][NextFetch]_vars
    /\ WF_<<pc, em_voo>>(Progresso)


PassoFetch == \E i \in 1..Len(tarefas) : Fetch(i)
PassoCacheSet == \E i \in 1..Len(tarefas) : CacheSet(i)
PassoBgFetch == \E i \in 1..Len(tarefas) : BgFetch(i)
PassoBgSet == \E i \in 1..Len(tarefas) : BgSet(i)
PassoInvalidar == \E j \in 1..Len(assinaturas) : Invalidar(j)

NextProxy ==
    \/ Pedido
    \/ PassoFetch
    \/ PassoCacheSet
    \/ PassoBgFetch
    \/ PassoBgSet
    \/ Assinar
    \/ PassoInvalidar

InitSpecProxy == ParadoRetry /\ FetchParado /\ InitProxy /\ ParadoCache /\ ParadoReset /\ ParadoUltimos

SpecProxy == InitSpecProxy /\ [][NextProxy]_vars

\* a process of more than 10 pages, the case in which a parcial=true miss
\* spawns the background task
InitFairSpecProxy == InitSpecProxy /\ total_paginas(total_itens) > limiar_parcial

\* the steps of sei_andamentos / sei_documentos and of their background tasks
NextFairProxy ==
    \/ Pedido
    \/ PassoFetch
    \/ PassoCacheSet
    \/ PassoBgFetch
    \/ PassoBgSet

\* the event loop runs every task it was given, and every upstream request
\* carries a timeout, so a spawned background task takes its steps
FairSpecProxy ==
    /\ InitFairSpecProxy
    /\ [][NextFairProxy]_vars
    /\ WF_vars(PassoBgFetch)
    /\ WF_vars(PassoBgSet)

NextCache ==
    \/ PedidoGet
    \/ Buscar
    \/ TarefaBg
    \/ Invalidacao
    \/ Conectar
    \/ ComandoGet
    \/ ComandoSet
    \/ Scan
    \/ Delete
    \/ Tick
    \/ Cair
    \/ Voltar
    \/ EscritaConcorrente

InitSpecCache == ParadoRetry /\ ParadoFetch /\ ParadoProxy /\ InitCache /\ ParadoReset /\ ParadoUltimos

SpecCache == InitSpecCache /\ [][NextCache]_vars

NextReset ==
    \/ CriarChave
    \/ ResetCacheProcesso
    \/ SeiInvalidarCache
    \/ RedisMuda

InitSpecReset ==
    /\ ParadoRetry /\ ParadoFetch /\ ParadoProxy /\ ParadoCache
    /\ InitReset /\ ParadoUltimos

SpecReset == InitSpecReset /\ [][NextReset]_vars

NextUltimos ==
    \/ UltimosPrimeira
    \/ UltimosUltima
    \/ UltimosPenultima

InitSpecUltimos ==
    /\ ParadoRetry /\ ParadoFetch /\ ParadoProxy /\ ParadoCache
    /\ ParadoReset /\ InitUltimos

SpecUltimos == InitSpecUltimos /\ [][NextUltimos]_vars

----------------------------------------------------------------------------
(* Properties of _fazer_requisicao_com_retry (SpecRetry) *)

\* C10: only timeouts and connection errors are retried. A response, whatever
\* its status, is the last attempt of the call and is returned unchanged; the
\* attempts before it are all transport failures, so the number of attempts
\* is 1 + the transport failures before the response, and never exceeds
\* max_tentativas.
C10_RetryOnlyOnTransport ==
    /\ Len(rq_hist) <= max_tentativas
    /\ \A k \in 1..Len(rq_hist) :
         /\ rq_hist[k].tipo = "response" =>
               /\ k = Len(rq_hist)
               /\ rq_estado = "returned"
               /\ rq_resultado = rq_hist[k]
         /\ k < Len(rq_hist) => rq_hist[k].tipo \in TiposTransporte
    /\ rq_estado = "returned" =>
         /\ rq_resultado.tipo = "response"
         /\ Len(rq_hist) =
              1 + Cardinality({k \in 1..Len(rq_hist) :
                                 rq_hist[k].tipo \in TiposTransporte})

\* a 500 response is returned by the third attempt, after two transport failures
C10_Witness ==
    /\ max_tentativas = 3
    /\ rq_estado = "returned"
    /\ Len(rq_hist) = 3
    /\ rq_resultado = Resposta(500)

----------------------------------------------------------------------------
(* Properties of one fetch call (SpecFetch) *)

T_paginas == total_paginas(total_itens)

DescobertaOk == resp_descoberta = Resposta(200)

Coletadas == dict_keys(resultados_por_pagina)

\* C1: listar_documentos / listar_tarefa with TotalItens > 10 is all-or-nothing:
\* a call that returns has collected every page 1..total_pages and its list
\* holds every item of every page; a call with an uncollected page at its end
\* raises 502 and returns nothing.
C1_AllOrNothing ==
    (modo = "all" /\ pc = "fim" /\ DescobertaOk /\ total_itens > 10) =>
       \/ /\ retorno.tipo = "return"
          /\ Coletadas = 1..T_paginas
          /\ \A q \in 1..T_paginas :
                seq_set(pagina_upstream(total_itens, q)) \subseteq seq_set(retorno.itens)
       \/ /\ retorno.tipo = "raise"
          /\ retorno.status = 502
          /\ retorno.itens = <<>>
          /\ Coletadas # 1..T_paginas

\* two pages are still failed after the third round and the call raises 502
C1_Witness ==
    /\ modo = "all" /\ pc = "fim" /\ total_itens = 221
    /\ rodada = max_retries
    /\ retorno.tipo = "raise" /\ retorno.status = 502
    /\ Len(retorno.paginas) = 2

\* C3: when listar_* with TotalItens > 10 returns, its list is the upstream
\* collection itself: TotalItens items, page 1's items first, then page 2's,
\* and so on, whatever the order of the responses and whatever pages were
\* retried; and it does return when no page request fails.
C3_OrderedAndComplete ==
    (modo = "all" /\ pc = "fim" /\ DescobertaOk /\ total_itens > 10) =>
       /\ retorno.tipo = "return" =>
             /\ Len(retorno.itens) = total_itens
             /\ retorno.itens = colecao(total_itens)
       /\ ruins = {} => retorno.tipo = "return"

\* a 23-page call returns after responses arrived out of order and a page
\* was retried
C3_Witness ==
    /\ modo = "all" /\ pc = "fim" /\ total_itens = 221
    /\ retorno.tipo = "return"
    /\ desordem
    /\ ruins # {}

\* C4 as claimed: with total_pages <= 10 the partial variants behave like
\* listar_* under the same upstream behaviour (a page that failed keeps
\* failing): they raise where it raises, and return its list with
\* parcial = False where it returns.
C4_PartialSmallLikeFull ==
    (modo = "parcial" /\ pc = "fim" /\ T_paginas <= limiar_parcial) =>
       LET falhas == [q \in 1..T_paginas |->
                         IF q \in ruins THEN max_retries + 1 ELSE 0]
           fa == listar_completo(recurso, resp_descoberta, total_itens, falhas)
       IN IF fa.tipo = "raise"
            THEN retorno.tipo = "raise" /\ retorno.status = fa.status
            ELSE retorno = Retornou(fa.itens, total_itens, FALSE)

\* C8: with total_pages > 10 the partial variants return parcial = True, the
\* upstream TotalItens and at most 2 * 5 * 10 = 100 items, whatever pages fail.
C8_PartialBounded ==
    (modo = "parcial" /\ pc = "fim" /\ DescobertaOk /\ T_paginas > limiar_parcial) =>
       /\ retorno.tipo = "return"
       /\ retorno.parcial = TRUE
       /\ retorno.total = total_itens
       /\ Len(retorno.itens) <= 2 * K_paginas * quantidade_por_pagina

\* listar_tarefa_parcial returns exactly 100 items of a 110-item process
C8_Witness ==
    /\ modo = "parcial" /\ pc = "fim" /\ recurso = "andamentos"
    /\ total_itens = 110
    /\ retorno.parcial = TRUE
    /\ Len(retorno.itens) = 100

\* the items of pages {1..5} \cup {T-4..T} in ascending page order
PrimeirasEUltimas(total) ==
    LET T == total_paginas(total)
        ps == sorted((1..K_paginas) \cup ((T - (K_paginas - 1))..T))
    IN concat([k \in 1..Len(ps) |-> pagina_upstream(total, ps[k])])

\* C9 as claimed: with total_pages T > 10 and no failing request, both partial
\* variants return the items of pages {1..5} \cup {T-4..T}.
C9_FirstAndLastFive ==
    (modo = "parcial" /\ pc = "fim" /\ DescobertaOk
       /\ T_paginas > limiar_parcial /\ ruins = {}) =>
       retorno.itens = PrimeirasEUltimas(total_itens)

\* C9 amended: listar_tarefa_parcial returns the items of pages
\* {1..5} \cup {T-4..T} in ascending page order, each page once;
\* listar_documentos_parcial returns the items of page 1 and of page T only.
C9_FirstAndLastPages ==
    (modo = "parcial" /\ pc = "fim" /\ DescobertaOk
       /\ T_paginas > limiar_parcial /\ ruins = {}) =>
       /\ recurso = "andamentos" =>
             retorno.itens = PrimeirasEUltimas(total_itens)
       /\ recurso = "documentos" =>
             retorno.itens = pagina_upstream(total_itens, 1)
                               \o pagina_upstream(total_itens, T_paginas)

\* listar_tarefa_parcial returns for a 23-page process whose responses
\* arrived out of order
C9_Witness ==
    /\ modo = "parcial" /\ pc = "fim" /\ recurso = "andamentos"
    /\ total_itens = 221 /\ ruins = {} /\ desordem
    /\ retorno.tipo = "return"


\* the call has made one request, the discovery request for page 1, and no
\* other is outstanding
SoDescoberta ==
    /\ pc \in {"descoberta", "fim"}
    /\ em_voo = {} /\ lote = <<>>
    /\ \A q \in DOMAIN pedidos : pedidos[q] = (IF q = 1 THEN 1 ELSE 0)

\* C16: for 0 < TotalItens <= 10 listar_documentos / listar_tarefa make the
\* discovery request for page 1 and no other request, and return the items
\* of that page, which are all the items of the process.
C16_SinglePageSingleRequest ==
    (modo = "all" /\ total_itens > 0 /\ total_itens <= quantidade_por_pagina) =>
       /\ SoDescoberta
       /\ (pc = "fim" /\ DescobertaOk) =>
             /\ retorno.tipo = "return"
             /\ retorno.itens = pagina_upstream(total_itens, 1)
             /\ retorno.itens = colecao(total_itens)

\* listar_* has returned the only page of a process of exactly 10 items
C16_Witness ==
    /\ modo = "all" /\ pc = "fim" /\ DescobertaOk
    /\ total_itens = quantidade_por_pagina
    /\ retorno.tipo = "return" /\ Len(retorno.itens) = quantidade_por_pagina

\* C17: when the discovery response reports TotalItens = 0 the partial
\* variants return ([], 0, False) and listar_* return [], no request follows
\* the discovery request and nothing is raised.
C17_EmptyProcess ==
    (total_itens = 0) =>
       /\ SoDescoberta
       /\ (pc = "fim" /\ DescobertaOk) => retorno = Retornou(<<>>, 0, FALSE)

\* a partial variant has returned for an empty process
C17_Witness ==
    /\ total_itens = 0 /\ modo = "parcial" /\ pc = "fim" /\ DescobertaOk
    /\ retorno = Retornou(<<>>, 0, FALSE)

\* C21 as claimed: when a request of listar_* has ended in a transport
\* failure after its last attempt, be it the discovery request or the
\* request of a later page, the call ends in the 502 that lists the failed
\* pages.
C21_ExhaustionIsAggregated502 ==
    (/\ modo = "all" /\ pc = "fim"
     /\ (resp_descoberta.tipo \in TiposTransporte \/ esgotadas # {})) =>
       /\ retorno.tipo = "raise"
       /\ retorno.status = 502
       /\ retorno.paginas # <<>>

\* C21 amended: no transport exception leaves listar_*. When the discovery
\* request ends in a transport failure after its last attempt the call
\* raises the 500 of its `except httpx.RequestError`, which lists no page.
\* When the request of a later page does, the helper returns [] and the page
\* is requested again in the rounds that follow; the call raises the 502
\* that lists the failed pages exactly when some page is still uncollected
\* after the last round, and every such page is listed.
C21_ExhaustionTwoTier ==
    (modo = "all" /\ pc = "fim") =>
       /\ retorno.tipo \in {"return", "raise"}
       /\ retorno.tipo = "raise" => retorno.status \in {401, 403, 422, 500, 502}
       /\ resp_descoberta.tipo \in TiposTransporte =>
             retorno = Levantou(500, <<>>)
       /\ DescobertaOk =>
             /\ (retorno.tipo = "raise") <=>
                   (\E p \in 2..T_paginas : p \notin Coletadas)
             /\ retorno.tipo = "raise" =>
                   /\ retorno.status = 502
                   /\ \A p \in esgotadas :
                         p \notin Coletadas => p \in seq_set(retorno.paginas)

\* a page whose request ended in a transport failure after its last attempt
\* was collected in a later round and the call returned
C21_Witness ==
    /\ modo = "all" /\ pc = "fim" /\ DescobertaOk
    /\ esgotadas # {}
    /\ retorno.tipo = "return"

\* C22: within one call of listar_* at most 20 page requests are in flight
\* at any moment: a batch holds at most 20 pages, and requests are issued
\* only when no request is in flight, so none of a batch is issued before
\* every request of the batch before it has completed.
C22_BoundedBatches ==
    /\ [](modo = "all" =>
            /\ Cardinality(em_voo) <= batch_size
            /\ Len(lote) <= batch_size)
    /\ [][ (modo = "all" /\ (pedidos' # pedidos \/ ~(em_voo' \subseteq em_voo))) =>
              em_voo = {} ]_vars

\* the second batch of a round is in flight, after a first batch of 20
C22_Witness ==
    /\ modo = "all" /\ pc = "lote"
    /\ i_lote = batch_size
    /\ Len(paginas_pendentes) > batch_size
    /\ em_voo # {}

\* C23: listar_* run at most 3 batch rounds; the pages a round requests
\* are, in their order, the pages the round before left uncollected; a page
\* that has been collected is not requested again; and a page is requested
\* at most 3 times, the last page at most 4 times (its up-front request and
\* the rounds), page 1 once.
C23_BoundedRounds ==
    /\ [](modo = "all" =>
            /\ rodada <= max_retries
            /\ pc = "lote" => rodada < max_retries
            /\ \A p \in DOMAIN pedidos :
                  pedidos[p] <= (IF p = 1 THEN 1
                                 ELSE IF p = T_paginas THEN max_retries + 1
                                 ELSE max_retries))
    /\ [][ modo = "all" =>
             /\ \A p \in DOMAIN pedidos :
                   pedidos'[p] > pedidos[p] =>
                      /\ pedidos'[p] = pedidos[p] + 1
                      /\ p \notin Coletadas
             /\ rodada' # rodada =>
                   /\ rodada' = rodada + 1
                   /\ paginas_pendentes' =
                         SelectSeq(paginas_pendentes,
                            LAMBDA p : p \notin dict_keys(resultados_por_pagina'))
                   /\ pc' = "lote" => em_voo' = seq_set(fatia(paginas_pendentes', 0))
         ]_vars

\* the third round requests the last page, which failed up front and in the
\* first two rounds
C23_Witness ==
    /\ modo = "all" /\ pc = "lote" /\ rodada = max_retries - 1
    /\ T_paginas \in em_voo
    /\ pedidos[T_paginas] = max_retries + 1

C25_LastPageFirst ==
    [][ (modo = "all" /\ T_paginas > 1) =>
          /\ \A p \in 2..(T_paginas - 1) :
                pedidos'[p] > pedidos[p] =>
                   pedidos[T_paginas] >= 1 /\ T_paginas \notin em_voo
          /\ (pc = "ultima" /\ pc' # "ultima") =>
                /\ pedidos[T_paginas] = 1
                /\ paginas_pendentes' =
                      SelectSeq(range(2, T_paginas), LAMBDA p : TRUE)
                        \o (IF T_paginas \in boas THEN <<>> ELSE <<T_paginas>>)
        ]_vars

\* the last page failed up front and is requested again in the first round
\* together with middle pages
C25_Witness ==
    /\ modo = "all" /\ pc = "lote" /\ rodada = 0
    /\ T_paginas > 2
    /\ T_paginas \notin boas
    /\ pedidos[T_paginas] = 2
    /\ pedidos[2] = 1

\* the page requests the call has issued so far, discovery included
RECURSIVE soma_pedidos(_)
soma_pedidos(P) ==
    IF P = {} THEN 0
    ELSE LET p == CHOOSE q \in P : TRUE IN pedidos[p] + soma_pedidos(P \ {p})

\* the most page requests a call issues: listar_* the discovery, the
\* up-front last page and max_retries rounds over pages 2..T at most;
\* listar_*_parcial every page once, or page 1 and the partial pages
limite_pedidos ==
    IF modo = "all"
      THEN 2 + max_retries * (Max(1, T_paginas) - 1)
    ELSE IF T_paginas <= limiar_parcial THEN Max(1, T_paginas)
    ELSE 1 + Len(paginas_parciais(T_paginas))

\* C30: every call of listar_* and listar_*_parcial ends, by returning or
\* raising, once every request it awaits is answered; and it issues a bounded
\* number of page requests on the way.
C30_Terminates ==
    /\ <>(pc = "fim" /\ retorno.tipo \in {"return", "raise"})
    /\ [](soma_pedidos(DOMAIN pedidos) <= limite_pedidos)

\* a call that went through every round, the last page failing each time,
\* has ended with the 502
C30_Witness ==
    /\ pc = "fim" /\ modo = "all"
    /\ rodada = max_retries
    /\ retorno.tipo = "raise" /\ retorno.status = 502
    /\ T_paginas > 2
    /\ pedidos[T_paginas] = max_retries + 1
    /\ soma_pedidos(DOMAIN pedidos) > T_paginas + max_retries

----------------------------------------------------------------------------
(* Properties of sei_andamentos / sei_documentos / sei_assinar_documento
   (SpecProxy, FairSpecProxy) *)

\* the cache key of a request
ChaveDe(t) == Chave(t.rec, t.proc, t.unid)

\* the envelope holds every item the upstream reports, and says so
Completo(e) ==
    /\ e.presente
    /\ ~e.Parcial
    /\ e.QuantidadeItens = total_itens
    /\ e.itens = colecao(total_itens)

\* C2 as claimed: every listing envelope with Parcial=false that a request
\* returns or that the cache holds has QuantidadeItens equal to the TotalItens the
\* upstream reports.
C2_NonPartialIsComplete ==
    /\ \A k \in DOMAIN cache :
          (k[2] \in Recursos /\ cache[k].presente /\ ~cache[k].Parcial) =>
             cache[k].QuantidadeItens = total_itens
    /\ \A i \in 1..Len(tarefas) :
          (/\ tarefas[i].rec \in Recursos
           /\ tarefas[i].resp.tipo = "return"
           /\ ~tarefas[i].resp.env.Parcial) =>
             tarefas[i].resp.env.QuantidadeItens = total_itens

\* the background task of request i is at its fetch / has failed / has
\* written the cache; the cache holds the full envelope under the key of
\* request i
BgRodando(i) == i <= Len(tarefas) /\ tarefas[i].pc = "bg_fetch"
BgFalhou(i) == i <= Len(tarefas) /\ tarefas[i].bg = "falhou"
BgOk(i) == i <= Len(tarefas) /\ tarefas[i].bg = "ok"
CacheCompleto(i) ==
    i <= Len(tarefas) /\ Completo(cache[ChaveDe(tarefas[i])])

C6_HitsAfterSignatureAreFresh ==
    [][(Len(tarefas') = Len(tarefas) + 1) =>
         LET t == tarefas'[Len(tarefas')] IN
           \A j \in 1..Len(assinaturas) :
              (/\ assinaturas[j].pc = "fim"
               /\ assinaturas[j].status \in {200, 204}
               /\ t.rec = "documentos" /\ t.unid = assinaturas[j].unid
               /\ t.hit) =>
                 t.resp.env.lido >= assinaturas[j].versao]_vars

\* C7: the step in which the background fetch of a request ends is its only
\* one; if it ends in a failure the task is over, the cache and every
\* response are as they were; a task that is over takes no further step.
C7_BackgroundFailureIsolated ==
    [][\A i \in 1..Len(tarefas) :
         /\ (tarefas[i].pc = "bg_fetch" /\ tarefas'[i] # tarefas[i]) =>
               /\ tarefas'[i].bg_chamadas = 1
               /\ tarefas'[i].pc \in {"bg_set", "bg_fim"}
               /\ tarefas'[i].pc = "bg_fim" =>
                     /\ tarefas'[i].bg = "falhou"
                     /\ cache' = cache
                     /\ \A n \in 1..Len(tarefas) :
                           tarefas'[n].resp = tarefas[n].resp
         /\ tarefas[i].pc = "bg_fim" => tarefas'[i] = tarefas[i]]_vars

\* a background task has failed: its request got the partial envelope, and
\* the key is absent
C7_Witness ==
    \E i \in 1..Len(tarefas) :
        /\ tarefas[i].bg = "falhou" /\ tarefas[i].pc = "bg_fim"
        /\ tarefas[i].resp.tipo = "return" /\ tarefas[i].resp.env.Parcial
        /\ ~cache[ChaveDe(tarefas[i])].presente


----------------------------------------------------------------------------
(* Properties of one page request (SpecPagina) *)

\* the attempts before attempt n all failed at transport level
SoTransporteAntes(n) ==
    \A k \in 1..(n - 1) : rq_hist[k].tipo \in TiposTransporte

\* a failure case of the page request: no response, a response that is not
\* 200, or a 200 response whose body is not JSON, not an object, or lacks
\* the key
CasoDeFalha(d) ==
    \/ d.tipo # "response"
    \/ d.status # 200
    \/ d.corpo \in {"nao_json", "nao_objeto", "sem_chave"}

\* C11: with max_tentativas = 3, a response that follows k < 3 transport
\* failures ends the request and is what it returns; the request raises on a
\* transport failure only when all 3 attempts failed so, and then the helper
\* returns the empty list.
C11_RetryThenResponseOrEmpty ==
    max_tentativas = 3 =>
      LET n == Len(rq_hist) IN
      /\ (n >= 1 /\ rq_hist[n].tipo = "response" /\ SoTransporteAntes(n)) =>
            /\ rq_estado = "returned"
            /\ rq_resultado = rq_hist[n]
      /\ (n = 3 /\ SoTransporteAntes(4)) =>
            /\ rq_estado = "raised"
            /\ pg_retorno # SemPagina => pg_retorno = PaginaRetornou(<<>>)
      /\ (rq_estado = "raised" /\ rq_resultado.tipo \in TiposTransporte) =>
            n = 3 /\ SoTransporteAntes(4)

\* the third attempt gets a 200 response after a timeout and a connection
\* error, and the helper returns the page's items
C11_Witness ==
    /\ max_tentativas = 3
    /\ rq_hist = <<Excecao("timeout"), Excecao("connect"), Resposta(200)>>
    /\ rq_estado = "returned"
    /\ pg_retorno = PaginaRetornou(pagina_upstream(total_itens, pg_pagina))

\* C12 as claimed: the helper never raises and returns a list for every
\* outcome of the request, the empty list in every failure case.
C12_HelperReturnsList ==
    /\ pg_retorno.tipo # "raise"
    /\ pg_retorno.tipo = "return" =>
          /\ pg_retorno.lista
          /\ CasoDeFalha(rq_resultado) => pg_retorno.itens = <<>>

\* C12 amended: the helper never raises; it returns the empty list in every
\* failure case and the page's items for the documented body; for a 200
\* response whose JSON object holds null under the key it returns that null.
C12_HelperNeverRaises ==
    /\ pg_retorno.tipo # "raise"
    /\ pg_retorno.tipo = "return" =>
          /\ CasoDeFalha(rq_resultado) => pg_retorno = PaginaRetornou(<<>>)
          /\ (~CasoDeFalha(rq_resultado) /\ rq_resultado.corpo = "lista") =>
                pg_retorno =
                   PaginaRetornou(pagina_upstream(total_itens, pg_pagina))
          /\ (~CasoDeFalha(rq_resultado) /\ rq_resultado.corpo = "chave_nula") =>
                pg_retorno = PaginaNone

\* the helper returned the empty list after a request error that is not
\* retried
C12_Witness ==
    /\ rq_estado = "raised"
    /\ rq_resultado = Excecao("request_error")
    /\ pg_retorno = PaginaRetornou(<<>>)


----------------------------------------------------------------------------
(* Properties of the upstream GET wrappers (SpecGet) *)

\* C13 as claimed: every GET wrapper surfaces a non-200 response with status
\* s as an error with status s when s is 401, 403 or 422, and with status
\* 502 for every other s.
C13_StatusMapping ==
    (gw_retorno # Nenhum /\ rq_resultado.tipo = "response"
       /\ rq_resultado.status # 200) =>
       /\ gw_retorno.tipo = "raise"
       /\ gw_retorno.status =
             (IF rq_resultado.status \in {401, 403, 422}
                THEN rq_resultado.status ELSE 502)


----------------------------------------------------------------------------
(* Further properties of the proxy routes (SpecProxy) *)

\* C14: a request of sei_andamentos / sei_documentos / sei_unidades_abertas
\* that finds an envelope under its key returns that envelope, having made
\* no upstream request and started no background task, whether parcial is
\* true or false; nothing is done for it afterwards.
C14_HitShortCircuits ==
    [][ /\ Len(tarefas') = Len(tarefas) + 1 =>
             LET t == tarefas'[Len(tarefas')] IN
               cache[ChaveDe(t)].presente =>
                  /\ t.resp = RespostaOk(cache[ChaveDe(t)])
                  /\ t.pc = "fim"
                  /\ t.upstream = 0
                  /\ t.bg = "nao" /\ t.bg_chamadas = 0
        /\ \A i \in 1..Len(tarefas) :
             tarefas[i].hit => tarefas'[i] = tarefas[i] ]_vars

\* a parcial=true request was answered from the cache
C14_Witness ==
    \E i \in 1..Len(tarefas) :
       /\ tarefas[i].hit /\ tarefas[i].parcial
       /\ tarefas[i].resp = RespostaOk(cache[ChaveDe(tarefas[i])])


\* C20: requests are not deduplicated. A request that finds nothing under
\* its key starts its own fetch whatever other requests for the key are
\* under way, and makes that one fetch; a parcial=true request on a process
\* of more than 10 pages whose partial fetch returned starts its own
\* background full fetch; and every cache.set puts the writer's whole
\* envelope under the key, so the cache holds the value of the last writer.
C20_NoSingleFlight ==
    [][ /\ Len(tarefas') = Len(tarefas) + 1 =>
             LET t == tarefas'[Len(tarefas')] IN
               ~cache[ChaveDe(t)].presente =>
                  t.pc = "fetch" /\ ~t.hit /\ t.upstream = 0
        /\ \A i \in 1..Len(tarefas) :
             /\ (tarefas[i].pc = "fetch" /\ tarefas'[i] # tarefas[i]) =>
                   /\ tarefas'[i].upstream = 1
                   /\ (/\ tarefas[i].parcial
                       /\ total_paginas(total_itens) > limiar_parcial
                       /\ tarefas'[i].resp.tipo # "raise") =>
                         /\ tarefas'[i].pc = "bg_fetch"
                         /\ tarefas'[i].bg = "rodando"
             /\ (tarefas[i].pc \in {"set", "bg_set"}
                   /\ tarefas'[i] # tarefas[i]) =>
                   cache'[ChaveDe(tarefas[i])] = tarefas[i].env ]_vars

\* two background full fetches for one key run at the same time
C20_Witness ==
    \E i, j \in 1..Len(tarefas) :
       /\ i # j
       /\ ChaveDe(tarefas[i]) = ChaveDe(tarefas[j])
       /\ tarefas[i].pc = "bg_fetch" /\ tarefas[j].pc = "bg_fetch"
       /\ tarefas[i].upstream = 1 /\ tarefas[j].upstream = 1


----------------------------------------------------------------------------
(* Properties of RedisCache (SpecCache) *)

\* C15: no call of get, set or clear_pattern raises and no caller fails
\* because of the cache. A call in which the connection or a Redis command
\* failed returns None (get), False (set) or 0 (clear_pattern); after such a
\* get the route asks the upstream, and a route that asked the upstream
\* returns the upstream's result whether its set succeeded or not.
C15_CacheFailureNotFatal ==
    /\ chamada.ret.tipo # "raise"
    /\ chamada.resp.tipo # "raise"
    /\ (chamada.erro /\ chamada.ret # SemRet) =>
          /\ chamada.nome = "get" => chamada.ret = Retorna(PyNone)
          /\ chamada.nome = "set" => chamada.ret = Retorna(PyBool(FALSE))
          /\ chamada.nome = "clear_pattern" => chamada.ret = Retorna(PyInt(0))
          /\ (chamada.rota = "rota_get" /\ chamada.nome = "get") =>
                chamada.pc = "fetch"
    /\ (chamada.rota = "rota_get" /\ chamada.nome = "set"
          /\ chamada.pc = "fim") =>
          chamada.resp = Retorna(chamada.resultado)

\* a route whose get and whose set both failed has returned the upstream's
\* result
C15_Witness ==
    /\ chamada.rota = "rota_get" /\ chamada.nome = "set" /\ chamada.pc = "fim"
    /\ chamada.erro_get /\ chamada.erro
    /\ chamada.ret = Retorna(PyBool(FALSE))
    /\ chamada.resultado.t = "dict"
    /\ chamada.resp = Retorna(chamada.resultado)

\* C18: a get whose command is answered returns the value of the last set
\* on the key while the ttl of that set has not elapsed (the last set
\* counts: it replaced the value and restarted the ttl) and the key has
\* not been deleted since, and returns None once that ttl has elapsed.
C18_RoundTripAndExpiry ==
    [][ (/\ chamada.nome = "get" /\ chamada.pc = "cmd"
         /\ chamada'.ret # SemRet /\ ~chamada'.erro) =>
           LET g == gravado[chamada.chave] IN
             /\ (g.vale /\ g.resta > 0) => chamada'.ret = Retorna(g.valor)
             /\ g.resta = 0 => chamada'.ret = Retorna(PyNone) ]_vars

\* a get has returned the empty text that a set stored before it
C18_Witness ==
    /\ chamada.nome = "get" /\ ~chamada.erro
    /\ chamada.ret = Retorna(PyStr(""))
    /\ gravado[chamada.chave].vale
    /\ gravado[chamada.chave].valor = PyStr("")

\* the clear_pattern under way has returned, no command of it failed and no
\* other writer wrote during it
ClearTerminou ==
    /\ chamada.nome = "clear_pattern" /\ chamada.pc = "fim"
    /\ chamada.ret # SemRet
    /\ ~chamada.erro /\ ~chamada.concorrente

----------------------------------------------------------------------------
(* Properties of reset_cache_processo (SpecReset) *)

\* C26: after reset_cache_processo(n) returns ok, no key of the process n
\* names remains in the cache, whichever accepted form n has; stated for the
\* calls all of whose clear_pattern calls reached the server
C26_ResetClearsProcess ==
    [][ ( /\ reset_retorno' # reset_retorno
          /\ reset_retorno'.rota = "reset"
          /\ reset_retorno'.status = 200
          /\ reset_retorno'.completo )
        => chaves_redis' \cap chaves_do_processo(reset_retorno'.numero) = {} ]_vars

----------------------------------------------------------------------------
(* Properties of listar_ultimos_andamentos (SpecUltimos) *)

\* C27: when every request answers 200, the call returns the last
\* min(quantidade, TotalItens) andamentos of the process in upstream order;
\* whatever the requests answer, it returns a list
C27_LastNReturned ==
    ua_pc = "fim" =>
       /\ ua_retorno.tipo = "return"
       /\ ua_falhas = 0 =>
             ua_retorno.itens = ultimos(colecao(ua_total), ua_quantidade)

----------------------------------------------------------------------------
(* Properties of what sei_andamentos / sei_documentos write (SpecProxy) *)

\* C28: no value stored under a proxy:andamentos or proxy:documentos key
\* says Parcial = true, and a request has spawned a background task exactly
\* when the envelope it returned says Parcial = true
C28_PartialNeverCached ==
    /\ \A k \in Chaves :
          (k[2] \in Recursos /\ cache[k].presente) => ~cache[k].Parcial
    /\ \A i \in 1..Len(tarefas) :
          (tarefas[i].bg # "nao")
             <=> (tarefas[i].resp.tipo = "return" /\ tarefas[i].resp.env.Parcial)

\* a partial envelope went to the caller, its background task has written,
\* and the key holds the full listing
C28_Witness ==
    \E i \in 1..Len(tarefas) :
       /\ tarefas[i].resp.tipo = "return"
       /\ tarefas[i].resp.env.Parcial
       /\ tarefas[i].bg = "ok"
       /\ cache[ChaveDe(tarefas[i])].presente
       /\ ~cache[ChaveDe(tarefas[i])].Parcial

\* the envelopes a call of listar_* / listar_*_parcial /
\* consultar_procedimento that returned gives rise to
EnvelopesDeSucesso(rec) ==
    IF rec = "unidades" THEN {resultado_unidades}
    ELSE {envelope_completo(ret, v) :
             ret \in {r \in FinsCompleto[rec, total_itens] : r.tipo = "return"},
             v \in 0..MaxAssinaturas}
           \cup
         {envelope_parcial(ret, v) :
             ret \in {r \in FinsParcial[rec, total_itens] :
                         r.tipo = "return" /\ ~r.parcial},
             v \in 0..MaxAssinaturas}

\* a signature request the upstream refused
AssinaturaFalhou(a) == a.status \notin {200, 204}

\* C29: a request whose fetch raises writes and deletes no cache key, in the
\* route and in the background task alike; a signature the upstream refuses
\* invalidates nothing; and every entry of the cache is the envelope of a
\* fetch that returned
C29_FailedFetchLeavesCache ==
    /\ [](/\ \A i \in 1..Len(tarefas) :
               /\ tarefas[i].resp.tipo = "raise" =>
                     tarefas[i].pc = "fim" /\ tarefas[i].bg = "nao"
               /\ tarefas[i].bg = "falhou" => tarefas[i].pc = "bg_fim"
          /\ \A j \in 1..Len(assinaturas) :
               AssinaturaFalhou(assinaturas[j]) => assinaturas[j].pc = "fim"
          /\ \A k \in Chaves :
               cache[k].presente => cache[k] \in EnvelopesDeSucesso(k[2]))
    /\ [][ /\ \A i \in 1..Len(tarefas) :
               ( \/ tarefas[i].pc = "fetch" /\ tarefas'[i].resp.tipo = "raise"
                 \/ tarefas[i].pc = "bg_fetch" /\ tarefas'[i].bg = "falhou" )
                 => cache' = cache
           /\ Len(assinaturas') > Len(assinaturas) =>
                 (AssinaturaFalhou(assinaturas'[Len(assinaturas')]) => cache' = cache)
           /\ cache' # cache =>
                 \/ \E i \in 1..Len(tarefas) :
                       /\ tarefas[i].pc \in {"set", "bg_set"}
                       /\ tarefas[i].env \in EnvelopesDeSucesso(tarefas[i].rec)
                       /\ cache' = cache_set(cache, ChaveDe(tarefas[i]), tarefas[i].env)
                 \/ \E j \in 1..Len(assinaturas) :
                       /\ assinaturas[j].pc = "clear"
                       /\ ~AssinaturaFalhou(assinaturas[j])
         ]_vars

\* one request stored its listing, a second one's fetch raised and a
\* signature was refused: the entry of the first is still there
C29_Witness ==
    /\ Len(tarefas) = 2
    /\ tarefas[1].resp.tipo = "return" /\ ~tarefas[1].hit
    /\ tarefas[2].resp.tipo = "raise"
    /\ Len(assinaturas) = 1 /\ AssinaturaFalhou(assinaturas[1])
    /\ cache[ChaveDe(tarefas[1])] = tarefas[1].resp.env
    /\ cache[ChaveDe(tarefas[1])].presente

=============================================================================
